---- MODULE Spec2Model ----
(***************************************************************************)
(* Model of option_manager/multi_symbol_watcher.py: the per-instrument     *)
(* SymbolWatcher (refresh, trading-hours check, session classification,    *)
(* strategy run, signal queue) and the MultiSymbolWatcher scheduler        *)
(* (run_once, summary emission, run_continuous).                           *)
(*                                                                         *)
(* Time is an integer number of seconds since Monday 2024-01-01 00:00.     *)
(* Prices are integers in hundredths of a dollar.  Strings that the code   *)
(* parses ("HH:MM", the number of "ATM+N") are sequences of one-character  *)
(* strings and are parsed here the way the code parses them.               *)
(***************************************************************************)
EXTENDS Integers, Sequences, FiniteSets, TLC

\* ------------------------------------------------------------------------
\* Bounds of the model
\* ------------------------------------------------------------------------

\* run_once calls explored per behaviour of the scheduler
MaxCalls == 3

\* run_one_cycle calls explored per behaviour of a single watcher
MaxCycles == 2

\* process_signals calls made in a row after a cycle
MaxDrains == 2

\* send_message calls made on one OptionNotifier
MaxSends == 2

\* the last day, counted from 2024-01-01, on which a refresh is explored
MaxDay == 730

\* ------------------------------------------------------------------------
\* Python values
\* ------------------------------------------------------------------------

\* None, for the integer-valued fields current_price, last_update and
\* max_iterations, and the missing attribute last_summary_hour
None == 0 - 1

\* the marker used for "this call raised an exception"
Raised == 0 - 2

SecondsPerMinute == 6 * 10
SecondsPerHour == 60 * SecondsPerMinute
SecondsPerDay == 24 * SecondsPerHour

Max(a, b) == IF a >= b THEN a ELSE b

\* ------------------------------------------------------------------------
\* Parsing: int(), "HH:MM".split(":"), datetime.time(h, m)
\* ------------------------------------------------------------------------

Digits == <<"0", "1", "2", "3", "4", "5", "6", "7", "8", "9">>

IsDigit(c) == \E i \in 1..10 : Digits[i] = c

DigitVal(c) == (CHOOSE i \in 1..10 : Digits[i] = c) - 1

RECURSIVE DigitsValue(_)
DigitsValue(s) ==
    IF s = <<>> THEN 0
    ELSE 10 * DigitsValue(SubSeq(s, 1, Len(s) - 1)) + DigitVal(s[Len(s)])

\* int(s) for a string of decimal digits; Raised for ValueError
ParseInt(s) ==
    IF s # <<>> /\ \A i \in 1..Len(s) : IsDigit(s[i])
    THEN DigitsValue(s)
    ELSE Raised

\* s.split(":")
RECURSIVE SplitColon(_)
SplitColon(s) ==
    IF \A i \in 1..Len(s) : s[i] # ":"
    THEN <<s>>
    ELSE LET k == CHOOSE i \in 1..Len(s) :
                      s[i] = ":" /\ \A j \in 1..(i - 1) : s[j] # ":"
         IN  <<SubSeq(s, 1, k - 1)>> \o SplitColon(SubSeq(s, k + 1, Len(s)))

\* h, m = map(int, s.split(":")); datetime.time(h, m), as seconds of the day;
\* Raised when the unpacking, int() or datetime.time() raises ValueError
ParseTime(s) ==
    LET parts == SplitColon(s) IN
    IF Len(parts) # 2 THEN Raised
    ELSE LET h == ParseInt(parts[1])
             m == ParseInt(parts[2])
         IN  IF h = Raised \/ m = Raised THEN Raised
             ELSE IF h > 23 \/ m > 59 THEN Raised
             ELSE h * SecondsPerHour + m * SecondsPerMinute

\* ------------------------------------------------------------------------
\* Calendar: datetime.date, date.weekday(), datetime.now()
\* ------------------------------------------------------------------------

IsLeap(y) == (y % 4 = 0 /\ y % 100 # 0) \/ y % 400 = 0

DaysInMonth(y, m) ==
    IF m = 2 THEN (IF IsLeap(y) THEN 29 ELSE 28)
    ELSE IF m \in {4, 6, 9, 11} THEN 30 ELSE 31

\* number of days from 2024-01-01 to the first day of month m of year y
RECURSIVE DaysBeforeMonth(_, _)
DaysBeforeMonth(y, m) ==
    IF y = 2024 /\ m = 1 THEN 0
    ELSE LET py == IF m = 1 THEN y - 1 ELSE y
             pm == IF m = 1 THEN 12 ELSE m - 1
         IN  DaysBeforeMonth(py, pm) + DaysInMonth(py, pm)

\* datetime.date(y, m, d) as a day number; Raised for ValueError
MakeDate(y, m, d) ==
    IF d < 1 \/ d > DaysInMonth(y, m) THEN Raised
    ELSE DaysBeforeMonth(y, m) + (d - 1)

\* the date [y, m, d] of a day number
RECURSIVE DateFrom(_, _, _)
DateFrom(y, m, n) ==
    IF n < DaysInMonth(y, m) THEN [y |-> y, m |-> m, d |-> n + 1]
    ELSE DateFrom(IF m = 12 THEN y + 1 ELSE y,
                  IF m = 12 THEN 1 ELSE m + 1,
                  n - DaysInMonth(y, m))

DateOfDay(n) == DateFrom(2024, 1, n)

\* date.weekday(): Monday is 0; 2024-01-01 is a Monday
WeekdayOfDay(n) == n % 7

DayOf(t) == t \div SecondsPerDay
TimeOfDay(t) == t % SecondsPerDay
Weekday(t) == WeekdayOfDay(DayOf(t))
\* datetime.now().hour
HourOf(t) == TimeOfDay(t) \div SecondsPerHour
\* the wall-clock hour t lies in, counted from the epoch
AbsHour(t) == t \div SecondsPerHour

\* ------------------------------------------------------------------------
\* SymbolWatcher: configuration and state
\* ------------------------------------------------------------------------

T0400 == <<"0", "4", ":", "0", "0">>
T0930 == <<"0", "9", ":", "3", "0">>
T1600 == <<"1", "6", ":", "0", "0">>
T2000 == <<"2", "0", ":", "0", "0">>

\* symbol_config.get("trading_hours", {...}) when the key is absent
DefaultTradingHours == [market_open |-> T0930, market_close |-> T1600]

\* dict.get(key, default)
HoursGet(hours, key, dflt) == IF key \in DOMAIN hours THEN hours[key] ELSE dflt

\* self.current_options = {}
EmptyChain == [expiries |-> {}, strikes |-> {}]

\* variant: a watcher without a strategy file of its own gets a default one
NewWatcherDefaultStrategy(cfg) ==
    [price       |-> None,
     last_update |-> None,
     chain       |-> EmptyChain,
     strategies  |-> IF cfg.files = <<>>
                     THEN <<[base |-> "default", ext |-> ".py"]>>
                     ELSE cfg.files,
     queue       |-> <<>>]

\* SymbolWatcher.__init__ followed by load_strategies(), which keeps the
\* strategy files found for the symbol and leaves [] when none is found
NewWatcher(cfg) ==
    [price       |-> None,
     last_update |-> None,
     chain       |-> EmptyChain,
     strategies  |-> cfg.files,
     queue       |-> <<>>]

\* ------------------------------------------------------------------------
\* SymbolWatcher.check_trading_hours
\* ------------------------------------------------------------------------

\* is_weekday = 0 <= now.weekday() <= 4
IsWeekday(t) == 0 <= Weekday(t) /\ Weekday(t) <= 4

\* [exc |-> the call raised, val |-> the value it returned]
CheckTradingHours(cfg, t) ==
    IF cfg.market = "CRYPTO" THEN [exc |-> FALSE, val |-> TRUE]
    ELSE LET open_time  == ParseTime(HoursGet(cfg.hours, "market_open", T0930))
             close_time == ParseTime(HoursGet(cfg.hours, "market_close", T1600))
         IN  IF open_time = Raised \/ close_time = Raised
             THEN [exc |-> TRUE, val |-> FALSE]
             ELSE [exc |-> FALSE,
                   val |-> IsWeekday(t) /\ open_time <= TimeOfDay(t)
                                        /\ TimeOfDay(t) <= close_time]

\* ------------------------------------------------------------------------
\* SymbolWatcher.get_market_state
\* ------------------------------------------------------------------------

SessionValues == {"CLOSED", "PRE_MARKET", "REGULAR_HOURS", "AFTER_HOURS", "OPEN"}

\* variant: the opening time itself still counts as before the open
ClassifyTimeOpenExclusive(market, current_time, pre_time, open_time, close_time, after_time) ==
    IF market = "CRYPTO" THEN "OPEN"
    ELSE IF current_time < pre_time \/ current_time > after_time THEN "CLOSED"
    ELSE IF current_time <= open_time THEN "PRE_MARKET"
    ELSE IF current_time > close_time THEN "AFTER_HOURS"
    ELSE "REGULAR_HOURS"

\* the branch chain of get_market_state once the four times are parsed
ClassifyTime(market, current_time, pre_time, open_time, close_time, after_time) ==
    IF market = "CRYPTO" THEN "OPEN"
    ELSE IF current_time < pre_time \/ current_time > after_time THEN "CLOSED"
    ELSE IF current_time < open_time THEN "PRE_MARKET"
    ELSE IF current_time > close_time THEN "AFTER_HOURS"
    ELSE "REGULAR_HOURS"

\* tc is the clock read by check_trading_hours, ts (>= tc) the clock read by
\* get_market_state itself; the value is a session name, or "RAISE"
GetMarketState(cfg, tc, ts) ==
    LET chk == CheckTradingHours(cfg, tc) IN
    IF chk.exc THEN "RAISE"
    ELSE IF ~chk.val THEN "CLOSED"
    ELSE LET open_time  == ParseTime(HoursGet(cfg.hours, "market_open", T0930))
             close_time == ParseTime(HoursGet(cfg.hours, "market_close", T1600))
             pre_time   == ParseTime(HoursGet(cfg.hours, "pre_market_start", T0400))
             after_time == ParseTime(HoursGet(cfg.hours, "after_hours_end", T2000))
         IN  IF Raised \in {open_time, close_time, pre_time, after_time}
             THEN "RAISE"
             ELSE ClassifyTime(cfg.market, TimeOfDay(ts),
                               pre_time, open_time, close_time, after_time)

\* ------------------------------------------------------------------------
\* SymbolWatcher.update_market_data
\* ------------------------------------------------------------------------

\* round(self.current_price): Python rounds a float half to even
RoundPrice(p) ==
    LET q == p \div 100
        r == p % 100
    IN  IF r < 50 THEN q
        ELSE IF r > 50 THEN q + 1
        ELSE IF q % 2 = 0 THEN q ELSE q + 1

\* one strike descriptor: kind is the branch the descriptor takes ("ATM",
\* "ATM+", "ATM-" or "other"), num the text left after replace("ATM+", "")
\* [exc |-> int() raised, val |-> the strikes appended]
StrikeOf(desc, price) ==
    IF desc.kind = "ATM" THEN [exc |-> FALSE, val |-> {RoundPrice(price)}]
    ELSE IF desc.kind = "ATM+"
    THEN LET offset == ParseInt(desc.num) IN
         IF offset = Raised THEN [exc |-> TRUE, val |-> {}]
         ELSE [exc |-> FALSE, val |-> {RoundPrice(price) + offset}]
    ELSE IF desc.kind = "ATM-"
    THEN LET offset == ParseInt(desc.num) IN
         IF offset = Raised THEN [exc |-> TRUE, val |-> {}]
         ELSE [exc |-> FALSE, val |-> {RoundPrice(price) - offset}]
    ELSE [exc |-> FALSE, val |-> {}]

\* the loop over preferred_strikes; the dict keys made from the list
StrikesOf(descs, price) ==
    [exc |-> \E i \in 1..Len(descs) : StrikeOf(descs[i], price).exc,
     val |-> UNION {StrikeOf(descs[i], price).val : i \in 1..Len(descs)}]

\* variant: the Friday of the current week, today included
WeeklyExpiryThisWeek(today) == today + ((4 - WeekdayOfDay(today)) % 7)

\* "weekly": days_to_friday = (4 - today.weekday()) % 7 + 7
WeeklyExpiry(today) == today + ((4 - WeekdayOfDay(today)) % 7) + 7

\* (datetime.date(year, month, 1).weekday() + 18) % 7
ThirdFridayDay(y, m) == (WeekdayOfDay(MakeDate(y, m, 1)) + 18) % 7

\* "monthly": a day number, or Raised when datetime.date raises ValueError
MonthlyExpiry(today) ==
    LET dt == DateOfDay(today)
        monthly_exp == MakeDate(dt.y, dt.m, ThirdFridayDay(dt.y, dt.m))
    IN  IF monthly_exp = Raised THEN Raised
        ELSE IF monthly_exp < today
        THEN LET next_month == IF dt.m < 12 THEN dt.m + 1 ELSE 1
                 next_year  == IF dt.m < 12 THEN dt.y ELSE dt.y + 1
             IN  MakeDate(next_year, next_month,
                          ThirdFridayDay(next_year, next_month))
        ELSE monthly_exp

\* expiry.strftime("%Y-%m-%d"): the year, month and day of the date
FormatDate(n) == DateOfDay(n)

\* self.current_price *= (1 + change_pct), change_pct in basis points
MovePrice(price, bp) == (price * (10000 + bp)) \div 10000

\* t is the clock during the refresh, p0 the first price drawn, bp the
\* price change drawn.  [ok |-> the value returned, ws |-> the watcher after]
\* The chain keeps the keys of options_data: every expiry has every strike.
UpdateMarketData(cfg, ws, t, p0, bp) ==
    LET price1 == IF ws.price = None THEN p0 ELSE MovePrice(ws.price, bp)
        ws1 == [ws EXCEPT !.price = price1, !.last_update = t]
    IN
    IF ~cfg.options_enabled THEN [ok |-> TRUE, ws |-> ws1]
    ELSE
      LET strikes == StrikesOf(cfg.preferred_strikes, price1)
          today   == DayOf(t)
          weekly  == IF "weekly" \in cfg.preferred_expiries
                     THEN {WeeklyExpiry(today)} ELSE {}
          monthly == IF "monthly" \in cfg.preferred_expiries
                     THEN MonthlyExpiry(today) ELSE None
          expiries == {FormatDate(e) : e \in weekly \cup
                          (IF monthly \in {None, Raised} THEN {} ELSE {monthly})}
      IN
      IF strikes.exc \/ monthly = Raised
      THEN [ok |-> FALSE, ws |-> ws1]
      ELSE [ok |-> TRUE,
            ws |-> [ws1 EXCEPT !.chain =
                       [expiries |-> expiries,
                        strikes  |-> IF expiries = {} THEN {} ELSE strikes.val]]]

\* ------------------------------------------------------------------------
\* SymbolWatcher._simulate_option_price and the entries of options_data.
\* Spot prices are in cents, strikes in dollars, random factors in basis
\* points, option prices in 10^-6 dollars, entry amounts in 10^-8 dollars.
\* ------------------------------------------------------------------------

\* the largest r >= from with r * r <= n
RECURSIVE SqrtFrom(_, _)
SqrtFrom(n, from) ==
    IF (from + 1) * (from + 1) > n THEN from ELSE SqrtFrom(n, from + 1)

\* math.sqrt(days_to_expiry / 365.0) in hundredths; Raised for the
\* ValueError of a negative argument
SqrtYears(days_to_expiry) ==
    IF days_to_expiry < 0 THEN Raised
    ELSE SqrtFrom((days_to_expiry * 10000) \div 365, 0)

\* random_factor = 1.0 + (random.random() - 0.5) * 0.1, random() in [0, 1)
RandomFactors == {9500, 10000, 10499}

\* variant: the intrinsic value is not floored at zero
SimulateOptionPriceSigned(option_type, spot, strike, days_to_expiry, random_factor) ==
    LET root == SqrtYears(days_to_expiry)
        intrinsic == IF option_type = "call" THEN spot - strike * 100
                     ELSE strike * 100 - spot
    IN  IF root = Raised THEN Raised
        ELSE (intrinsic + (spot * 12 * root) \div 10000) * random_factor

\* _simulate_option_price(option_type, spot, strike, days_to_expiry) with
\* the random factor it draws; Raised when math.sqrt raises
SimulateOptionPrice(option_type, spot, strike, days_to_expiry, random_factor) ==
    LET root == SqrtYears(days_to_expiry)
        intrinsic == IF option_type = "call" THEN Max(0, spot - strike * 100)
                     ELSE Max(0, strike * 100 - spot)
        time_value == (spot * 12 * root) \div 10000
    IN  IF root = Raised THEN Raised
        ELSE (intrinsic + time_value) * random_factor

\* options_data[expiry_str][strike]: factors are the random factors drawn
\* for the call and for the put
OptionEntry(spot, strike, days_to_expiry, factors) ==
    LET call_price == SimulateOptionPrice("call", spot, strike,
                                          days_to_expiry, factors.call)
        put_price  == SimulateOptionPrice("put", spot, strike,
                                          days_to_expiry, factors.put)
    IN  [call     |-> call_price * 100,
         put      |-> put_price * 100,
         call_bid |-> call_price * 95,
         call_ask |-> call_price * 105,
         put_bid  |-> put_price * 95,
         put_ask  |-> put_price * 105]

\* the loops over expiries and strikes: keys are <<expiry day, strike>>,
\* factors[key] the random factors drawn for that entry
OptionsData(spot, strikes, expiries, today, factors) ==
    [key \in expiries \X strikes |->
        OptionEntry(spot, key[2], key[1] - today, factors[key])]

\* ------------------------------------------------------------------------
\* SymbolWatcher.run_strategies
\* ------------------------------------------------------------------------

SignalTypes == {"buy_call", "sell_call", "buy_put", "sell_put"}

\* os.path.basename(strategy_file).replace(".py", "")
StrategyName(file) == file.base

\* A draw is what random gives one strategy: fire is random() < 0.1, type,
\* expiry and strike the three random.choice results, confidence the
\* rounded confidence in hundredths.
NoDate == [y |-> 0, m |-> 0, d |-> 0]
NoDraw == [fire |-> FALSE, type |-> "buy_call", expiry |-> NoDate,
           strike |-> None, confidence |-> 50]

\* variant: a strategy that fires gives a signal also when current_options
\* is empty
RECURSIVE StrategySignalsUnguarded(_, _, _, _)
StrategySignalsUnguarded(cfg, ws, draws, i) ==
    IF i > Len(ws.strategies) THEN [exc |-> FALSE, val |-> <<>>]
    ELSE
      LET d == draws[i]
          rest == StrategySignalsUnguarded(cfg, ws, draws, i + 1)
      IN
      IF d.fire
      THEN IF ws.chain.expiries # {} /\ ws.chain.strikes = {}
           THEN [exc |-> TRUE, val |-> <<>>]
           ELSE [exc |-> rest.exc,
                 val |-> <<[symbol     |-> cfg.symbol,
                            strategy   |-> StrategyName(ws.strategies[i]),
                            type       |-> d.type,
                            expiry     |-> d.expiry,
                            strike     |-> d.strike,
                            spot_price |-> ws.price,
                            confidence |-> d.confidence]>> \o rest.val]
      ELSE rest

\* the signals of strategies i..Len(strategies), in order;
\* exc when random.choice raises IndexError on an expiry without strikes
RECURSIVE StrategySignals(_, _, _, _)
StrategySignals(cfg, ws, draws, i) ==
    IF i > Len(ws.strategies) THEN [exc |-> FALSE, val |-> <<>>]
    ELSE
      LET d == draws[i]
          rest == StrategySignals(cfg, ws, draws, i + 1)
      IN
      IF d.fire /\ ws.chain.expiries # {}
      THEN IF ws.chain.strikes = {} THEN [exc |-> TRUE, val |-> <<>>]
           ELSE [exc |-> rest.exc,
                 val |-> <<[symbol     |-> cfg.symbol,
                            strategy   |-> StrategyName(ws.strategies[i]),
                            type       |-> d.type,
                            expiry     |-> d.expiry,
                            strike     |-> d.strike,
                            spot_price |-> ws.price,
                            confidence |-> d.confidence]>> \o rest.val]
      ELSE rest

\* variant: the signals are returned without being put on the queue
RunStrategiesNoEnqueue(cfg, ws, draws) ==
    IF ws.strategies = <<>> THEN [exc |-> FALSE, signals |-> <<>>, ws |-> ws]
    ELSE IF ws.price = None THEN [exc |-> FALSE, signals |-> <<>>, ws |-> ws]
    ELSE LET got == StrategySignals(cfg, ws, draws, 1) IN
         IF got.exc THEN [exc |-> TRUE, signals |-> <<>>, ws |-> ws]
         ELSE [exc |-> FALSE, signals |-> got.val, ws |-> ws]

\* [exc |-> the call raised, signals |-> the list returned, ws |-> after]
RunStrategies(cfg, ws, draws) ==
    IF ws.strategies = <<>> THEN [exc |-> FALSE, signals |-> <<>>, ws |-> ws]
    ELSE IF ws.price = None THEN [exc |-> FALSE, signals |-> <<>>, ws |-> ws]
    ELSE LET got == StrategySignals(cfg, ws, draws, 1) IN
         IF got.exc THEN [exc |-> TRUE, signals |-> <<>>, ws |-> ws]
         ELSE [exc |-> FALSE, signals |-> got.val,
               ws |-> [ws EXCEPT !.queue = ws.queue \o got.val]]

\* ------------------------------------------------------------------------
\* SymbolWatcher.process_signals and _send_signal_notification
\* ------------------------------------------------------------------------

\* the message text built from a signal: the fields the text shows
SignalMessage(cfg, signal, outcome) ==
    [class      |-> "signal",
     symbol     |-> cfg.symbol,
     action     |-> signal.type,
     strike     |-> signal.strike,
     expiry     |-> signal.expiry,
     strategy   |-> signal.strategy,
     confidence |-> signal.confidence,
     outcome    |-> outcome]

\* what send_message does with the k-th signal message of a drain, under
\* the plan drawn for the notifier: "raise_first" raises on the first
\* message and delivers the later ones
SendResult(plan, k) ==
    IF plan = "raise_first" THEN (IF k = 1 THEN "raise" ELSE "ok") ELSE plan

\* variant: a send_message that raises ends the drain
RECURSIVE DrainUntilFailure(_, _, _, _, _)
DrainUntilFailure(cfg, queue, processed, notified, notifier) ==
    IF queue = <<>> THEN [queue |-> queue, processed |-> processed,
                          notified |-> notified]
    ELSE LET signal == Head(queue)
             out == SendResult(notifier.signal_send, Len(processed) + 1)
         IN  IF notifier.present /\ out = "raise"
             THEN [queue |-> Tail(queue),
                   processed |-> Append(processed, signal),
                   notified |-> Append(notified, SignalMessage(cfg, signal, out))]
             ELSE DrainUntilFailure(
                      cfg, Tail(queue), Append(processed, signal),
                      IF notifier.present
                      THEN Append(notified, SignalMessage(cfg, signal, out))
                      ELSE notified,
                      notifier)

\* the while loop: queue left, signals processed, messages handed to the
\* notifier (an exception of send_message is caught and logged)
RECURSIVE Drain(_, _, _, _, _)
Drain(cfg, queue, processed, notified, notifier) ==
    IF queue = <<>> THEN [queue |-> queue, processed |-> processed,
                          notified |-> notified]
    ELSE LET signal == Head(queue) IN
         Drain(cfg, Tail(queue), Append(processed, signal),
               IF notifier.present
               THEN Append(notified,
                           SignalMessage(cfg, signal,
                               SendResult(notifier.signal_send,
                                          Len(processed) + 1)))
               ELSE notified,
               notifier)

\* variant: every call reports its count to the notifier, also a count of 0
ProcessSignalsReporting(cfg, ws, notifier) ==
    LET d == Drain(cfg, ws.queue, <<>>, <<>>, notifier) IN
    [processed |-> d.processed,
     notified |-> IF notifier.present
                  THEN Append(d.notified,
                              [class |-> "report", symbol |-> cfg.symbol,
                               count |-> Len(d.processed)])
                  ELSE d.notified,
     ws |-> [ws EXCEPT !.queue = d.queue]]

ProcessSignals(cfg, ws, notifier) ==
    LET d == Drain(cfg, ws.queue, <<>>, <<>>, notifier) IN
    [processed |-> d.processed, notified |-> d.notified,
     ws |-> [ws EXCEPT !.queue = d.queue]]

\* ------------------------------------------------------------------------
\* SymbolWatcher.run_one_cycle
\* ------------------------------------------------------------------------

\* variant: the except branch returns a result without the error entry
ErrorResultUnflagged(cfg, what) == [symbol |-> cfg.symbol, signals |-> <<>>]

ErrorResult(cfg, what) == [symbol |-> cfg.symbol, error |-> what]

\* result.get("signals", [])
ResultSignals(result) ==
    IF "signals" \in DOMAIN result THEN result.signals ELSE <<>>

\* the value returned after the try block ran to its end
\* [result, ws, notified, refreshed]
CycleReturn(cfg, upd, market_state, run, done) ==
    [result |-> [symbol            |-> cfg.symbol,
                 data_updated      |-> upd.ok,
                 market_state      |-> market_state,
                 signals           |-> run.signals,
                 current_price     |-> upd.ws.price,
                 processed_signals |-> done.processed],
     ws |-> done.ws,
     notified |-> done.notified,
     refreshed |-> upd.ok]

\* the value returned by the except branch after step what raised
CycleCaught(cfg, what, ws, refreshed) ==
    [result |-> ErrorResult(cfg, what), ws |-> ws, notified |-> <<>>,
     refreshed |-> refreshed]

\* variant: process_signals handles what was queued before run_strategies
\* and leaves the signals of this cycle in the queue
CycleAfterRunDeferred(cfg, notifier, upd, market_state, run) ==
    IF run.exc THEN CycleCaught(cfg, "run_strategies", run.ws, upd.ok)
    ELSE CycleReturn(cfg, upd, market_state, run,
                     [ProcessSignals(cfg, upd.ws, notifier) EXCEPT !.ws = run.ws])

\* process_signals() after run_strategies() returned or raised
CycleAfterRun(cfg, notifier, upd, market_state, run) ==
    IF run.exc THEN CycleCaught(cfg, "run_strategies", run.ws, upd.ok)
    ELSE CycleReturn(cfg, upd, market_state, run,
                     ProcessSignals(cfg, run.ws, notifier))

\* variant: the strategies are run whenever the trading-hours check is true
CycleAfterCheckUngated(cfg, notifier, draws, upd, is_trading_hours, market_state) ==
    IF is_trading_hours.exc
    THEN CycleCaught(cfg, "check_trading_hours", upd.ws, upd.ok)
    ELSE IF market_state = "RAISE"
    THEN CycleCaught(cfg, "get_market_state", upd.ws, upd.ok)
    ELSE CycleAfterRun(cfg, notifier, upd, market_state,
                       IF is_trading_hours.val
                       THEN RunStrategies(cfg, upd.ws, draws)
                       ELSE [exc |-> FALSE, signals |-> <<>>, ws |-> upd.ws])

\* if is_trading_hours and data_updated: signals = self.run_strategies()
CycleAfterCheck(cfg, notifier, draws, upd, is_trading_hours, market_state) ==
    IF is_trading_hours.exc
    THEN CycleCaught(cfg, "check_trading_hours", upd.ws, upd.ok)
    ELSE IF market_state = "RAISE"
    THEN CycleCaught(cfg, "get_market_state", upd.ws, upd.ok)
    ELSE CycleAfterRun(cfg, notifier, upd, market_state,
                       IF is_trading_hours.val /\ upd.ok
                       THEN RunStrategies(cfg, upd.ws, draws)
                       ELSE [exc |-> FALSE, signals |-> <<>>, ws |-> upd.ws])

\* in: t the clock at the refresh and at the check_trading_hours call of the
\* cycle, tb the clock at the check inside get_market_state, tc the clock
\* get_market_state reads itself (t <= tb <= tc); p0, bp the refresh draws;
\* draws the strategy draws.
\* [result, ws, notified, refreshed]
RunOneCycle(cfg, ws, notifier, in) ==
    CycleAfterCheck(cfg, notifier, in.draws,
                    UpdateMarketData(cfg, ws, in.t, in.p0, in.bp),
                    CheckTradingHours(cfg, in.t),
                    GetMarketState(cfg, in.tb, in.tc))

\* ------------------------------------------------------------------------
\* MultiSymbolWatcher: summary construction
\* ------------------------------------------------------------------------

IsError(result) == "error" \in DOMAIN result

\* total_signals of _generate_simple_summary
RECURSIVE TotalSignals(_, _)
TotalSignals(results, symbols) ==
    IF symbols = {} THEN 0
    ELSE LET s == CHOOSE x \in symbols : TRUE IN
         Len(ResultSignals(results[s])) + TotalSignals(results, symbols \ {s})

\* _generate_simple_summary: formatting a price of None with ":.2f" raises
\* [exc |-> raised, text |-> the summary]
GenerateSimpleSummary(results) ==
    IF \E s \in DOMAIN results :
           ~IsError(results[s]) /\ results[s].current_price = None
    THEN [exc |-> TRUE, text |-> [class |-> "summary", kind |-> "none"]]
    ELSE [exc |-> FALSE,
          text |-> [class   |-> "summary",
                    kind    |-> "simple",
                    covers  |-> DOMAIN results,
                    errors  |-> {s \in DOMAIN results : IsError(results[s])},
                    total   |-> TotalSignals(results, DOMAIN results)]]

\* variant: an exception of the router leaves _generate_market_summary
GenerateMarketSummaryNoFallback(results, ai) ==
    IF ~ai.present THEN GenerateSimpleSummary(results)
    ELSE LET market_data == {s \in DOMAIN results :
                                ~IsError(results[s])
                                /\ results[s].current_price # None
                                /\ results[s].current_price # 0}
         IN  IF market_data = {} THEN GenerateSimpleSummary(results)
             ELSE IF ai.ask = "raise"
             THEN [exc |-> TRUE, text |-> [class |-> "summary", kind |-> "none"]]
             ELSE [exc |-> FALSE,
                   text |-> [class  |-> "summary",
                             kind   |-> "rich",
                             covers |-> market_data,
                             errors |-> {},
                             total  |-> TotalSignals(results, market_data)]]

\* _generate_market_summary: ai is [present, ask], ask being "ok" or "raise"
GenerateMarketSummary(results, ai) ==
    IF ~ai.present THEN GenerateSimpleSummary(results)
    ELSE LET market_data == {s \in DOMAIN results :
                                ~IsError(results[s])
                                /\ results[s].current_price # None
                                /\ results[s].current_price # 0}
         IN  IF market_data = {} THEN GenerateSimpleSummary(results)
             ELSE IF ai.ask = "raise" THEN GenerateSimpleSummary(results)
             ELSE [exc |-> FALSE,
                   text |-> [class  |-> "summary",
                             kind   |-> "rich",
                             covers |-> market_data,
                             errors |-> {},
                             total  |-> TotalSignals(results, market_data)]]

\* ------------------------------------------------------------------------
\* MultiSymbolWatcher.run_once: the pieces of the summary decision
\* ------------------------------------------------------------------------

\* variant: the test only asks whether the result has a signals entry
ResultHasSignalsKeyOnly(result) == "signals" \in DOMAIN result

\* if result.get("signals") and len(result.get("signals", [])) > 0
ResultHasSignals(result) ==
    "signals" \in DOMAIN result /\ Len(ResultSignals(result)) > 0

\* variant: the hour of the last summary is not compared
HourlyUpdateAnyHour(last_summary_hour, current_hour) ==
    last_summary_hour # None

\* hasattr(self, 'last_summary_hour') and self.last_summary_hour != current_hour
HourlyUpdate(last_summary_hour, current_hour) ==
    last_summary_hour # None /\ last_summary_hour # current_hour

\* variant: signals alone do not trigger the summary
ShouldSummarizeHourlyOnly(has_signals, hourly_update) == hourly_update

\* if has_signals or hourly_update
ShouldSummarize(has_signals, hourly_update) == has_signals \/ hourly_update

\* variant: the sleep is the remainder of the interval, not bounded below
SleepTimeUnclamped(update_interval, elapsed) == update_interval - elapsed

\* time.sleep(max(1, self.update_interval - elapsed))
SleepTime(update_interval, elapsed) == Max(1, update_interval - elapsed)

\* ------------------------------------------------------------------------
\* Configurations explored: symbols.json, the strategy directory, the
\* collaborators given to MultiSymbolWatcher
\* ------------------------------------------------------------------------

Atm == [kind |-> "ATM", num |-> <<>>]
AtmPlus5 == [kind |-> "ATM+", num |-> <<"5">>]
AtmMinus5 == [kind |-> "ATM-", num |-> <<"5">>]
\* "".split(", ") gives [""], a descriptor that matches no branch
NoStrikeDesc == [kind |-> "other", num |-> <<>>]

File(base) == [base |-> base, ext |-> ".py"]

\* a stock with the default trading hours and two strategies
CfgStock ==
    [symbol |-> "AAPL", market |-> "US", options_enabled |-> TRUE,
     preferred_strikes |-> <<Atm>>,
     preferred_expiries |-> {"weekly"},
     hours |-> DefaultTradingHours,
     files |-> <<File("AAPL_momentum"), File("AAPL_reversal")>>]

\* a stock that asks for the monthly expiry
CfgMonthly ==
    [symbol |-> "TSLA", market |-> "US", options_enabled |-> TRUE,
     preferred_strikes |-> <<AtmPlus5, AtmMinus5>>,
     preferred_expiries |-> {"weekly", "monthly"},
     hours |-> [market_open |-> T0930, market_close |-> T1600,
                pre_market_start |-> T0400, after_hours_end |-> T2000],
     files |-> <<File("TSLA_breakout")>>]

\* a crypto instrument with a trading-hours window of its own
CfgCrypto ==
    [symbol |-> "BTC-USD", market |-> "CRYPTO", options_enabled |-> TRUE,
     preferred_strikes |-> <<Atm>>,
     preferred_expiries |-> {"weekly"},
     hours |-> [market_open |-> T1600, market_close |-> T0930],
     files |-> <<File("BTC-USD_trend")>>]

\* a stock whose market_open has no colon
CfgBadHours ==
    [symbol |-> "NVDA", market |-> "US", options_enabled |-> FALSE,
     preferred_strikes |-> <<NoStrikeDesc>>,
     preferred_expiries |-> {},
     hours |-> [market_open |-> <<"0", "9", "3", "0">>, market_close |-> T1600],
     files |-> <<File("NVDA_gap")>>]

\* a stock with expiries but no preferred_strikes
CfgNoStrikes ==
    [symbol |-> "SPY", market |-> "US", options_enabled |-> TRUE,
     preferred_strikes |-> <<NoStrikeDesc>>,
     preferred_expiries |-> {"weekly"},
     hours |-> DefaultTradingHours,
     files |-> <<File("SPY_iron"), File("SPY_wheel")>>]

\* a stock without options: the refresh sets the price only
CfgNoOptions ==
    [symbol |-> "IBM", market |-> "US", options_enabled |-> FALSE,
     preferred_strikes |-> <<NoStrikeDesc>>,
     preferred_expiries |-> {},
     hours |-> DefaultTradingHours,
     files |-> <<File("IBM_carry")>>]

\* a stock for which no strategy file is found
CfgNoStrategies ==
    [symbol |-> "QQQ", market |-> "US", options_enabled |-> TRUE,
     preferred_strikes |-> <<Atm>>,
     preferred_expiries |-> {"weekly"},
     hours |-> DefaultTradingHours,
     files |-> <<>>]


\* pre_market_start later than market_open
CfgLatePre ==
    [CfgMonthly EXCEPT !.symbol = "LATE", !.files = <<File("LATE_breakout")>>,
                       !.hours.pre_market_start = <<"1", "0", ":", "0", "0">>]

\* after_hours_end earlier than market_close
CfgEarlyAfter ==
    [CfgMonthly EXCEPT !.symbol = "EARLY", !.files = <<File("EARLY_breakout")>>,
                       !.hours.after_hours_end = <<"1", "5", ":", "0", "0">>]

\* an hour that datetime.time refuses
CfgBadAfter ==
    [CfgMonthly EXCEPT !.symbol = "HOUR25",
                       !.files = <<File("HOUR25_breakout")>>,
                       !.hours.after_hours_end = <<"2", "5", ":", "0", "0">>]

\* a crypto instrument whose window is written as the whole day
CfgCryptoMidnight ==
    [CfgCrypto EXCEPT !.symbol = "SOL-USD",
                      !.files = <<File("SOL-USD_trend")>>,
                      !.hours = [market_open  |-> <<"0", "0", ":", "0", "0">>,
                                 market_close |-> <<"2", "4", ":", "0", "0">>]]

\* a crypto instrument without trading hours of its own
CfgCryptoDefault ==
    [CfgCrypto EXCEPT !.symbol = "ETH-USD", !.files = <<File("ETH-USD_trend")>>,
                      !.hours = DefaultTradingHours]

\* settings.get("update_interval_seconds", 60)
DefaultUpdateInterval == 60

\* notifier: whether a notifier was given; ai_router: whether AIRouterSync
\* could be built; max_iterations: the --iterations argument
Conf(wl, notifier, ai_router, max_iterations) ==
    [watchers |-> wl, notifier |-> notifier, ai_router |-> ai_router,
     update_interval |-> DefaultUpdateInterval,
     max_iterations |-> max_iterations]

\* the clock when the process starts
At(day, hour, minute) ==
    day * SecondsPerDay + hour * SecondsPerHour + minute * SecondsPerMinute

Thursday1559 == At(3, 15, 59)    \* 2024-01-04 15:59
Friday1559 == At(4, 15, 59)      \* 2024-01-05 15:59

\* the processes the scheduler is explored with: configuration and start
Processes ==
    {[conf |-> Conf(<<CfgStock, CfgMonthly>>, n, a, m), start |-> t] :
        n \in BOOLEAN, a \in {FALSE}, m \in {None}, t \in {Thursday1559, Friday1559}}
    \cup
    {[conf |-> Conf(<<CfgStock, CfgMonthly>>, TRUE, TRUE, 2), start |-> Friday1559],
     [conf |-> Conf(<<CfgCrypto, CfgBadHours>>, TRUE, FALSE, None), start |-> Friday1559],
     [conf |-> Conf(<<CfgNoStrikes, CfgNoStrategies>>, TRUE, TRUE, None),
      start |-> Friday1559]}

\* the single watchers explored on their own
LoneWatchers ==
    {[conf |-> Conf(<<c>>, n, FALSE, None), start |-> t] :
        c \in {CfgStock, CfgMonthly}, n \in BOOLEAN,
        t \in {Thursday1559, Friday1559}}
    \cup
    {[conf |-> Conf(<<c>>, TRUE, FALSE, None), start |-> t] :
        c \in {CfgCrypto, CfgCryptoMidnight, CfgBadHours, CfgBadAfter,
               CfgNoStrikes, CfgNoStrategies, CfgNoOptions},
        t \in {Friday1559, At(5, 15, 59)}}    \* Friday and Saturday 2024-01-06

\* what the notifier does with a message: deliver it, return a failure
\* result, or raise
SendOutcomes == {"ok", "fail", "raise"}

\* what the notifier does with the signal messages of one drain
SignalSendPlans == SendOutcomes \cup {"raise_first"}

\* seconds that pass between two reads of the clock in a slow cycle
SlowStep == 60 + 30

DrawStyles == {[type |-> "buy_call", confidence |-> 50],
               [type |-> "sell_put", confidence |-> 100]}

\* the draws random can give one strategy, for the chain of this refresh
DrawChoices(chain) ==
    {NoDraw} \cup
    {[fire |-> TRUE, type |-> st.type, expiry |-> e, strike |-> k,
      confidence |-> st.confidence] :
        st \in DrawStyles,
        e \in (IF chain.expiries = {} THEN {NoDate} ELSE chain.expiries),
        k \in (IF chain.strikes = {} THEN {None} ELSE chain.strikes)}

\* one firing draw and the draw that does not fire
FewDrawChoices(chain) ==
    {NoDraw, CHOOSE d \in DrawChoices(chain) : d.fire /\ d.type = "buy_call"}

\* The inputs of a cycle.  prices: 100 + random.random() * 100; moves:
\* (random.random() - 0.5) * 0.01 in basis points; delays: the seconds before
\* the check inside get_market_state and before its own clock read
RichInputs ==
    [prices |-> {10050, 15075}, moves |-> {0 - 50, 0},
     delays |-> {<<0, 0>>, <<SlowStep, 0>>, <<0, SlowStep>>},
     sends |-> SignalSendPlans, all_draws |-> TRUE]

LeanInputs ==
    [prices |-> {10050}, moves |-> {0 - 50},
     delays |-> {<<0, 0>>, <<SlowStep, 0>>},
     sends |-> {"ok", "raise"}, all_draws |-> FALSE]

\* ------------------------------------------------------------------------
\* OptionNotifier (notifier.py)
\* ------------------------------------------------------------------------

\* dict.get(key, default)
DictGet(d, key, default) == IF key \in DOMAIN d THEN d[key] ELSE default

\* not d.get(key): the key is absent or its value is the empty string
Missing(d, key) == key \notin DOMAIN d \/ d[key] = ""

\* the empty dict
EmptyDict == <<>>

\* d[key] = val
Put(d, key, val) ==
    [k \in DOMAIN d \cup {key} |-> IF k = key THEN val ELSE d[k]]

ChannelNames == {"telegram", "discord", "feishu"}

\* OptionNotifier.__init__ on a loaded configuration
OptionNotifier(config) ==
    [telegram_config    |-> DictGet(config, "telegram", EmptyDict),
     discord_config     |-> DictGet(config, "discord", EmptyDict),
     feishu_config      |-> DictGet(config, "feishu", EmptyDict),
     telegram_enabled   |->
         DictGet(DictGet(config, "telegram", EmptyDict), "enabled", FALSE),
     discord_enabled    |->
         DictGet(DictGet(config, "discord", EmptyDict), "enabled", FALSE),
     feishu_enabled     |->
         DictGet(DictGet(config, "feishu", EmptyDict), "enabled", FALSE),
     notification_count |-> 0]

\* the files an image path can name: image_path and os.path.exists(image_path)
\* holds of the first two, open(image_path, "rb") raises on the second
NoImage == ""
ExistingImages == {"chart.png", "locked.png"}
ReadableImages == {"chart.png"}
HasImage(image_path) == image_path # NoImage /\ image_path \in ExistingImages

\* what requests.post gives: it raises, or a response with a status code, a
\* body that is JSON or not, and the "code" of that JSON
PostRaises == [raises |-> TRUE, status_code |-> 0, is_json |-> FALSE, code |-> 0]
Response(status, is_json, code) ==
    [raises |-> FALSE, status_code |-> status, is_json |-> is_json, code |-> code]

\* the results of one channel
Success == [success |-> TRUE]
Failure(error) == [success |-> FALSE, error |-> error]
StatusFailure(reply) ==
    [success |-> FALSE, error |-> <<"status", reply.status_code>>,
     response |-> "text"]

\* what a _send_to_ method gives its caller: a returned value, with the
\* requests it posted
Returned(val, posts) == [exc |-> FALSE, val |-> val, posts |-> posts]
Escaped(posts) == [exc |-> TRUE, val |-> Failure("escaped"), posts |-> posts]

\* variant: _send_to_telegram without its except clause
SendToTelegramUncaught(telegram_config, image_path, reply) ==
    IF Missing(telegram_config, "token") \/ Missing(telegram_config, "chat_id")
    THEN Returned(Failure("incomplete"), <<>>)
    ELSE IF HasImage(image_path) /\ image_path \notin ReadableImages
    THEN Escaped(<<>>)
    ELSE LET endpoint == IF HasImage(image_path) THEN "sendPhoto"
                                                 ELSE "sendMessage"
             posts == <<[channel |-> "telegram", endpoint |-> endpoint]>>
         IN  IF reply.raises THEN Escaped(posts)
             ELSE IF reply.status_code = 200 THEN Returned(Success, posts)
             ELSE Returned(StatusFailure(reply), posts)

\* _send_to_telegram(message, image_path), reply being what requests.post
\* gives it
SendToTelegram(telegram_config, image_path, reply) ==
    IF Missing(telegram_config, "token") \/ Missing(telegram_config, "chat_id")
    THEN Returned(Failure("incomplete"), <<>>)
    ELSE IF HasImage(image_path) /\ image_path \notin ReadableImages
    THEN Returned(Failure("open"), <<>>)
    ELSE LET endpoint == IF HasImage(image_path) THEN "sendPhoto"
                                                 ELSE "sendMessage"
             posts == <<[channel |-> "telegram", endpoint |-> endpoint]>>
         IN  IF reply.raises THEN Returned(Failure("post"), posts)
             ELSE IF reply.status_code = 200 THEN Returned(Success, posts)
             ELSE Returned(StatusFailure(reply), posts)

\* _send_to_discord(message, image_path)
SendToDiscord(discord_config, image_path, reply) ==
    IF Missing(discord_config, "webhook_url")
    THEN Returned(Failure("incomplete"), <<>>)
    ELSE IF HasImage(image_path) /\ image_path \notin ReadableImages
    THEN Returned(Failure("open"), <<>>)
    ELSE LET posts == <<[channel |-> "discord", endpoint |-> "webhook"]>>
         IN  IF reply.raises THEN Returned(Failure("post"), posts)
             ELSE IF reply.status_code = 204 \/ reply.status_code = 200
                  THEN Returned(Success, posts)
             ELSE Returned(StatusFailure(reply), posts)

\* _send_to_feishu(message, image_path): the image is never opened
SendToFeishu(feishu_config, image_path, reply) ==
    IF Missing(feishu_config, "webhook_url")
    THEN Returned(Failure("incomplete"), <<>>)
    ELSE LET posts == <<[channel |-> "feishu", endpoint |-> "webhook"]>>
         IN  IF reply.raises THEN Returned(Failure("post"), posts)
             ELSE IF reply.status_code = 200
                  THEN IF ~reply.is_json THEN Returned(Failure("json"), posts)
                       ELSE IF reply.code = 0 THEN Returned(Success, posts)
                       ELSE Returned(Failure(<<"code", reply.code>>), posts)
             ELSE Returned(StatusFailure(reply), posts)

\* one "if self.<channel>_enabled:" block of send_message: acc is the call
\* so far, call what the _send_to_ method gives
Attempt(acc, enabled, key, call) ==
    IF acc.exc \/ ~enabled THEN acc
    ELSE IF call.exc
    THEN [acc EXCEPT !.exc = TRUE, !.called = Append(@, key),
                     !.posts = @ \o call.posts]
    ELSE [acc EXCEPT !.results = Put(@, key, call.val),
                     !.called = Append(@, key),
                     !.posts = @ \o call.posts]

\* send_message(message, image_path) on notifier n, replies[ch] being what
\* requests.post gives channel ch
SendMessage(n, image_path, replies) ==
    LET begun == [exc |-> FALSE, results |-> EmptyDict, called |-> <<>>,
                  posts |-> <<>>,
                  notifier |-> [n EXCEPT !.notification_count = @ + 1]]
        telegram == Attempt(begun, n.telegram_enabled, "telegram",
                            SendToTelegram(n.telegram_config, image_path,
                                           replies["telegram"]))
        discord == Attempt(telegram, n.discord_enabled, "discord",
                           SendToDiscord(n.discord_config, image_path,
                                         replies["discord"]))
    IN  Attempt(discord, n.feishu_enabled, "feishu",
                SendToFeishu(n.feishu_config, image_path, replies["feishu"]))

\* ------------------------------------------------------------------------
\* State
\* ------------------------------------------------------------------------

VARIABLES
    now,                \* the wall clock
    conf,               \* the configuration the process was started with
    watchers,           \* self.watchers: the state of each SymbolWatcher
    pc,                 \* where run_continuous is
    iteration,          \* run_continuous: iteration
    start_time,         \* run_continuous: start_time
    idx,                \* run_once: the next watcher of the for loop
    results,            \* run_once: results
    has_signals,        \* run_once: has_signals
    last_summary_hour,  \* self.last_summary_hour, None while the attribute is missing
    sent,               \* messages handed to the notifier by the current run_once
    stop_reason,        \* why run_continuous left its loop
    cycle,              \* record of the latest run_one_cycle call
    summary,            \* record of the summary step of the current run_once
    hist,               \* what earlier run_once calls did, per wall-clock hour
    session,            \* record of the latest get_market_state call made alone
    drain,              \* record of the process_signals calls made alone
    option_notifier,    \* an OptionNotifier: its configuration and count
    delivery,           \* record of the latest send_message call made alone
    quote               \* record of the latest update_market_data call made alone

vars == <<now, conf, watchers, pc, iteration, start_time, idx, results,
          has_signals, last_summary_hour, sent, stop_reason, cycle, summary,
          hist, session, drain,
                   option_notifier, delivery, quote>>

NWatchers == Len(conf.watchers)

NoCycle == [idx |-> 0]
NoSummary == [done |-> FALSE]
NoSession == [state |-> "none"]
NoDrain == [calls |-> 0]
NoDelivery == [sends |-> 0]
NoQuote == [refreshes |-> 0]
NoHistory == [calls |-> 0, call_hour |-> None, emitted |-> FALSE,
              heartbeats |-> 0, gap_free |-> TRUE, missed |-> FALSE]

\* MultiSymbolWatcher.__init__ and _init_watchers for process p
Start(p, at) ==
    /\ conf = p.conf
    /\ now = p.start
    /\ watchers = [i \in 1..Len(p.conf.watchers) |-> NewWatcher(p.conf.watchers[i])]
    /\ pc = at
    /\ iteration = 0
    /\ start_time = None
    /\ idx = 0
    /\ results = <<>>
    /\ has_signals = FALSE
    /\ last_summary_hour = None
    /\ sent = <<>>
    /\ stop_reason = "running"
    /\ cycle = NoCycle
    /\ summary = NoSummary
    /\ hist = NoHistory
    /\ session = NoSession
    /\ drain = NoDrain
    /\ delivery = NoDelivery
    /\ quote = NoQuote

Init ==
    /\ \E p \in Processes : Start(p, "loop")
    /\ option_notifier = OptionNotifier(EmptyDict)

\* ------------------------------------------------------------------------
\* watcher.run_one_cycle() on watcher i, with inputs drawn from a profile
\* ------------------------------------------------------------------------

\* the state after run_one_cycle returned got on watcher i
\* variant: the price is an attribute shared by all watchers
StoreWatcherSharedPrice(all, i, ws) ==
    [j \in DOMAIN all |->
        IF j = i THEN ws ELSE [all[j] EXCEPT !.price = ws.price]]

\* the watchers after run_one_cycle has left watcher i as ws: price, last
\* update, option chain and queue are attributes of the instance
StoreWatcher(all, i, ws) == [all EXCEPT ![i] = ws]

Cycled(i, cfg, ws, in, gate, got) ==
    /\ watchers' = StoreWatcher(watchers, i, got.ws)
    /\ now' = in.tc
    /\ cycle' = [idx |-> i, symbol |-> cfg.symbol, cfg |-> cfg,
                 t |-> in.t, tb |-> in.tb, tc |-> in.tc,
                 before |-> ws, after |-> got.ws,
                 refreshed |-> got.refreshed, gate |-> gate,
                 draws |-> in.draws, result |-> got.result,
                 notified |-> got.notified]

\* the strategy draws, once the refresh upd and the check gate are known;
\* a profile without all_draws leaves out the draws of a cycle whose
\* strategies are not run
DoDraws(i, profile, cfg, ws, p0, bp, d, out, upd, gate) ==
    \E draws \in [1..Len(ws.strategies) ->
                     IF profile.all_draws THEN DrawChoices(upd.ws.chain)
                     ELSE IF gate.exc \/ ~gate.val \/ ~upd.ok THEN {NoDraw}
                     ELSE FewDrawChoices(upd.ws.chain)] :
       Cycled(i, cfg, ws,
              [t |-> now, tb |-> now + d[1], tc |-> now + d[1] + d[2],
               draws |-> draws],
              gate,
              CycleAfterCheck(cfg, [present |-> conf.notifier, signal_send |-> out],
                              draws, upd, gate,
                              GetMarketState(cfg, now + d[1], now + d[1] + d[2])))

DoCycleOn(i, profile, cfg, ws) ==
    \E p0 \in (IF ws.price = None THEN profile.prices ELSE {ws.price}),
       bp \in (IF ws.price = None THEN {0} ELSE profile.moves),
       d \in profile.delays,
       out \in (IF conf.notifier THEN profile.sends ELSE {"ok"}) :
      DoDraws(i, profile, cfg, ws, p0, bp, d, out,
              UpdateMarketData(cfg, ws, now, p0, bp),
              CheckTradingHours(cfg, now))

DoCycle(i, profile) == DoCycleOn(i, profile, conf.watchers[i], watchers[i])

\* ------------------------------------------------------------------------
\* run_continuous: the while test, and the start of run_once
\* ------------------------------------------------------------------------

LoopTest ==
    /\ pc = "loop"
    /\ IF conf.max_iterations = None \/ iteration < conf.max_iterations
       THEN /\ hist.calls < MaxCalls
            /\ start_time' = now
            /\ idx' = 1
            /\ pc' = IF NWatchers = 0 THEN "summary" ELSE "cycle"
            /\ hist' = [hist EXCEPT !.calls = @ + 1]
            /\ UNCHANGED stop_reason
       ELSE /\ pc' = "stopped"
            /\ stop_reason' = "max_iterations"
            /\ UNCHANGED <<start_time, idx, hist>>
    /\ UNCHANGED <<now, conf, watchers, iteration, last_summary_hour, results,
                   has_signals, sent, cycle, summary, session, drain,
                   option_notifier, delivery, quote>>

\* ------------------------------------------------------------------------
\* run_once: one pass of the for loop
\* ------------------------------------------------------------------------

\* variant: the for loop ends after its first watcher
AfterCycleFirstOnly(i, n) == "summary"

\* where run_once is after the cycle of watcher i of n: the for loop over
\* self.watchers.items() goes on, or ends before the summary decision
AfterCycle(i, n) == IF i = n THEN "summary" ELSE "cycle"

RunCycleStep ==
    /\ pc = "cycle"
    /\ DoCycle(idx, LeanInputs)
    /\ results' = (cycle'.symbol :> cycle'.result) @@ results
    /\ has_signals' = (has_signals \/ ResultHasSignals(cycle'.result))
    /\ sent' = sent \o cycle'.notified
    /\ idx' = idx + 1
    /\ pc' = AfterCycle(idx, NWatchers)
    /\ UNCHANGED <<conf, iteration, start_time, last_summary_hour,
                   stop_reason, summary, hist, session, drain,
                   option_notifier, delivery, quote>>

\* ------------------------------------------------------------------------
\* run_once: the summary decision after the for loop
\* ------------------------------------------------------------------------

SummaryMessages(log) == SelectSeq(log, LAMBDA msg : msg.class = "summary")

\* bookkeeping per wall-clock hour: h is the hour of this call, emitted
\* whether this call emitted a summary
Record(h, emitted) ==
    LET new_hour == hist.call_hour # h IN
    [hist EXCEPT
       !.call_hour  = h,
       !.emitted    = IF new_hour THEN emitted ELSE (@ \/ emitted),
       !.heartbeats = (IF new_hour THEN 0 ELSE @)
                      + (IF emitted /\ ~has_signals THEN 1 ELSE 0),
       !.gap_free   = @ /\ (hist.call_hour = None \/ h - hist.call_hour <= 1),
       !.missed     = @ \/ (hist.call_hour # None /\ new_hour /\ ~hist.emitted)]

\* the state after the summary gen was built, the router having done ask,
\* and send_message did out
Summarized(current_hour, ask, gen, out) ==
    /\ sent' = IF ~gen.exc /\ conf.notifier THEN Append(sent, gen.text) ELSE sent
    /\ summary' = [done |-> TRUE, emit |-> TRUE,
                   generated |-> IF gen.exc THEN 0 ELSE 1,
                   kind |-> gen.text.kind,
                   ask |-> ask,
                   outcome |-> IF gen.exc \/ ~conf.notifier THEN "none" ELSE out,
                   raised |-> gen.exc \/ (conf.notifier /\ out = "raise"),
                   hour |-> current_hour]
    /\ hist' = Record(AbsHour(now), ~gen.exc)
    /\ IF gen.exc \/ (conf.notifier /\ out = "raise")
       THEN /\ pc' = "stopped"
            /\ stop_reason' = "error"
            /\ UNCHANGED last_summary_hour
       ELSE /\ pc' = "sleep"
            /\ last_summary_hour' = current_hour
            /\ UNCHANGED stop_reason

NotSummarized(current_hour) ==
    /\ summary' = [done |-> TRUE, emit |-> FALSE, generated |-> 0,
                   kind |-> "none", outcome |-> "none",
                   raised |-> FALSE, hour |-> current_hour]
    /\ hist' = Record(AbsHour(now), FALSE)
    /\ pc' = "sleep"
    /\ UNCHANGED <<sent, last_summary_hour, stop_reason>>

SummaryDecision(current_hour) ==
    IF ShouldSummarize(has_signals, HourlyUpdate(last_summary_hour, current_hour))
    THEN \E ask \in (IF conf.ai_router THEN {"ok", "raise"} ELSE {"ok"}),
            out \in (IF conf.notifier THEN SendOutcomes ELSE {"ok"}) :
           Summarized(current_hour, ask,
                      GenerateMarketSummary(
                          results, [present |-> conf.ai_router, ask |-> ask]),
                      out)
    ELSE NotSummarized(current_hour)

SummaryStep ==
    /\ pc = "summary"
    /\ SummaryDecision(HourOf(now))
    /\ UNCHANGED <<now, conf, watchers, iteration, start_time, idx, results,
                   has_signals, cycle, session, drain,
                   option_notifier, delivery, quote>>

\* ------------------------------------------------------------------------
\* run_continuous: after run_once returns
\* ------------------------------------------------------------------------

SleepStep ==
    /\ pc = "sleep"
    /\ LET elapsed    == now - start_time
           sleep_time == SleepTime(conf.update_interval, elapsed)
       IN  now' = now + sleep_time
    /\ iteration' = iteration + 1
    /\ pc' = "loop"
    /\ results' = <<>>
    /\ has_signals' = FALSE
    /\ sent' = <<>>
    /\ cycle' = NoCycle
    /\ summary' = NoSummary
    /\ idx' = 0
    /\ UNCHANGED <<conf, watchers, start_time, last_summary_hour, stop_reason,
                   hist, session, drain,
                   option_notifier, delivery, quote>>

\* KeyboardInterrupt reaches the try block of run_continuous
Interrupt ==
    /\ pc \in {"loop", "cycle", "summary", "sleep"}
    /\ pc' = "stopped"
    /\ stop_reason' = "interrupt"
    /\ UNCHANGED <<now, conf, watchers, iteration, start_time, idx, results,
                   has_signals, last_summary_hour, sent, cycle, summary, hist,
                   session, drain,
                   option_notifier, delivery, quote>>

Next == LoopTest \/ RunCycleStep \/ SummaryStep \/ SleepStep \/ Interrupt

Spec == Init /\ [][Next]_vars

\* ------------------------------------------------------------------------
\* A single SymbolWatcher cycled on its own, with every input of a cycle
\* ------------------------------------------------------------------------

WatcherInit ==
    /\ \E p \in LoneWatchers : Start(p, "watcher")
    /\ option_notifier = OptionNotifier(EmptyDict)

WatcherCycle ==
    /\ pc = "watcher"
    /\ cycle = NoCycle
    /\ hist.calls < MaxCycles
    /\ DoCycle(1, RichInputs)
    /\ hist' = [hist EXCEPT !.calls = @ + 1]
    /\ UNCHANGED <<conf, pc, iteration, start_time, idx, results, has_signals,
                   last_summary_hour, sent, stop_reason, summary, session, drain,
                   option_notifier, delivery, quote>>

WatcherWait ==
    /\ pc = "watcher"
    /\ cycle # NoCycle
    \* seconds between two cycles of the watcher
    /\ \E gap \in {DefaultUpdateInterval, SecondsPerDay} : now' = now + gap
    /\ cycle' = NoCycle
    /\ drain' = NoDrain
    /\ UNCHANGED <<conf, watchers, pc, iteration, start_time, idx, results,
                   has_signals, last_summary_hour, sent, stop_reason, summary,
                   hist, session, option_notifier, delivery, quote>>

\* process_signals() called on the watcher once more after a cycle
WatcherDrain ==
    /\ pc = "watcher"
    /\ cycle # NoCycle
    /\ drain.calls < MaxDrains
    /\ \E plan \in (IF conf.notifier THEN SignalSendPlans ELSE {"ok"}) :
         LET got == ProcessSignals(conf.watchers[1], watchers[1],
                                   [present |-> conf.notifier,
                                    signal_send |-> plan])
         IN  /\ watchers' = [watchers EXCEPT ![1] = got.ws]
             /\ drain' = [calls     |-> drain.calls + 1,
                          before    |-> watchers[1],
                          after     |-> got.ws,
                          processed |-> got.processed,
                          notified  |-> got.notified]
    /\ UNCHANGED <<now, conf, pc, iteration, start_time, idx, results,
                   has_signals, last_summary_hour, sent, stop_reason, cycle,
                   summary, hist, session, option_notifier, delivery, quote>>

WatcherNext == WatcherCycle \/ WatcherWait \/ WatcherDrain

SpecWatcher == WatcherInit /\ [][WatcherNext]_vars

\* ------------------------------------------------------------------------
\* get_market_state applied to a configuration and a clock
\* ------------------------------------------------------------------------

SessionConfigs ==
    {CfgStock, CfgMonthly, CfgCrypto, CfgCryptoDefault, CfgCryptoMidnight,
     CfgBadHours, CfgLatePre, CfgEarlyAfter, CfgBadAfter}

\* times of day at and around the configured limits
SessionTimes ==
    {At(0, 0, 0), At(0, 3, 59), At(0, 4, 0), At(0, 8, 0), At(0, 9, 29),
     At(0, 9, 30), At(0, 9, 45), At(0, 12, 0), At(0, 15, 30), At(0, 15, 59),
     At(0, 16, 0), At(0, 16, 1), At(0, 19, 59), At(0, 20, 0), At(0, 20, 1),
     At(0, 23, 59)}

SessionInit ==
    /\ Start(CHOOSE p \in LoneWatchers : TRUE, "session")
    /\ option_notifier = OptionNotifier(EmptyDict)

ClassifySession ==
    /\ pc = "session"
    /\ session = NoSession
    /\ \E cfg \in SessionConfigs, day \in 0..6, tod \in SessionTimes,
          d \in {0, SlowStep} :
         session' = [cfg      |-> cfg,
                     tc       |-> day * SecondsPerDay + tod,
                     ts       |-> day * SecondsPerDay + tod + d,
                     tradable |-> CheckTradingHours(cfg, day * SecondsPerDay + tod),
                     state    |-> GetMarketState(cfg, day * SecondsPerDay + tod,
                                                 day * SecondsPerDay + tod + d)]
    /\ UNCHANGED <<now, conf, watchers, pc, iteration, start_time, idx, results,
                   has_signals, last_summary_hour, sent, stop_reason, cycle,
                   summary, hist, drain,
                   option_notifier, delivery, quote>>

\* the caller drops the returned value before the next call
ForgetSession ==
    /\ pc = "session"
    /\ session # NoSession
    /\ session' = NoSession
    /\ UNCHANGED <<now, conf, watchers, pc, iteration, start_time, idx, results,
                   has_signals, last_summary_hour, sent, stop_reason, cycle,
                   summary, hist, drain,
                   option_notifier, delivery, quote>>

SessionNext == ClassifySession \/ ForgetSession

SpecSession == SessionInit /\ [][SessionNext]_vars

\* ------------------------------------------------------------------------
\* One OptionNotifier: send_message called on it again and again
\* ------------------------------------------------------------------------

\* the sections a configuration file can hold for a channel; <<>> is a
\* configuration without the section
TelegramSections ==
    {<<>>,
     <<[enabled |-> TRUE, token |-> "123:abc", chat_id |-> "42"]>>,
     <<[enabled |-> TRUE, token |-> "", chat_id |-> "42"]>>,
     <<[enabled |-> TRUE, token |-> "123:abc"]>>,
     <<[enabled |-> FALSE, token |-> "123:abc", chat_id |-> "42"]>>}

WebhookSections ==
    {<<>>,
     <<[enabled |-> TRUE, webhook_url |-> "https://hook"]>>,
     <<[enabled |-> TRUE]>>,
     <<[webhook_url |-> "https://hook"]>>}

NotifierConfigs ==
    {LET held == [telegram |-> t, discord |-> d, feishu |-> f]
     IN  [ch \in {c \in ChannelNames : Len(held[c]) > 0} |-> held[ch][1]] :
        t \in TelegramSections, d \in WebhookSections, f \in WebhookSections}


Replies ==
    {PostRaises, Response(200, TRUE, 0), Response(200, TRUE, 19001),
     Response(200, FALSE, 0), Response(204, FALSE, 0),
     Response(500, FALSE, 0)}

\* self.<channel>_enabled
ChannelEnabled(n, ch) ==
    CASE ch = "telegram" -> n.telegram_enabled
      [] ch = "discord"  -> n.discord_enabled
      [] ch = "feishu"   -> n.feishu_enabled

\* the replies the enabled channels can get; a disabled channel posts nothing
ReplyChoices(n) ==
    {r \in [ChannelNames -> Replies] :
        \A ch \in ChannelNames : ~ChannelEnabled(n, ch) => r[ch] = PostRaises}

NotifierInit ==
    /\ Start(CHOOSE p \in LoneWatchers : TRUE, "notifier")
    /\ \E config \in NotifierConfigs : option_notifier = OptionNotifier(config)

SendMessageCall ==
    /\ pc = "notifier"
    /\ delivery = NoDelivery
    /\ option_notifier.notification_count < MaxSends
    /\ \E image_path \in {NoImage, "gone.png"} \cup ExistingImages, replies \in ReplyChoices(option_notifier) :
         LET got == SendMessage(option_notifier, image_path, replies)
         IN  /\ option_notifier' = got.notifier
             /\ delivery' = [sends      |-> 1,
                             before     |-> option_notifier,
                             image_path |-> image_path,
                             replies    |-> replies,
                             exc        |-> got.exc,
                             results    |-> got.results,
                             called     |-> got.called,
                             posts      |-> got.posts]
    /\ UNCHANGED <<now, conf, watchers, pc, iteration, start_time, idx,
                   results, has_signals, last_summary_hour, sent, stop_reason,
                   cycle, summary, hist, session, drain, quote>>

\* the caller goes on with the result
NotifierRest ==
    /\ pc = "notifier"
    /\ delivery # NoDelivery
    /\ delivery' = NoDelivery
    /\ UNCHANGED <<now, conf, watchers, pc, iteration, start_time, idx,
                   results, has_signals, last_summary_hour, sent, stop_reason,
                   cycle, summary, hist, session, drain, option_notifier,
                   quote>>

NotifierNext == SendMessageCall \/ NotifierRest

SpecNotifier == NotifierInit /\ [][NotifierNext]_vars

\* ------------------------------------------------------------------------
\* One update_market_data call of a new watcher, on any day
\* ------------------------------------------------------------------------

\* a stock that asks for the monthly expiry only
CfgMonthlyOnly ==
    [CfgMonthly EXCEPT !.symbol = "MSFT", !.preferred_expiries = {"monthly"},
                       !.preferred_strikes = <<Atm, AtmPlus5>>,
                       !.files = <<File("MSFT_swing")>>]


\* the expiries list built by the refresh, as day numbers
ExpiryDays(cfg, today) ==
    (IF "weekly" \in cfg.preferred_expiries THEN {WeeklyExpiry(today)} ELSE {})
    \cup (IF "monthly" \in cfg.preferred_expiries
             /\ MonthlyExpiry(today) # Raised
          THEN {MonthlyExpiry(today)} ELSE {})

RefreshInit ==
    /\ Start(CHOOSE p \in LoneWatchers : TRUE, "refresh")
    /\ option_notifier = OptionNotifier(EmptyDict)

\* update_market_data() on the day the clock shows, with the price and the
\* random factors it draws (the same pair of factors for every entry)
RefreshCall ==
    /\ pc = "refresh"
    /\ quote = NoQuote
    /\ \E cfg \in {CfgStock, CfgMonthly, CfgMonthlyOnly, CfgNoStrikes}, p0 \in RichInputs.prices,
          call_factor \in RandomFactors, put_factor \in RandomFactors :
         LET today == DayOf(now)
             upd == UpdateMarketData(cfg, NewWatcher(cfg), now, p0, 0)
             strikes == StrikesOf(cfg.preferred_strikes, upd.ws.price).val
             expiries == ExpiryDays(cfg, today)
             factors == [key \in expiries \X strikes |->
                            [call |-> call_factor, put |-> put_factor]]
         IN  quote' =
                  [refreshes |-> 1,
                   cfg       |-> cfg,
                   today     |-> today,
                   ok        |-> upd.ok,
                   ws        |-> upd.ws,
                   weekly    |-> IF "weekly" \in cfg.preferred_expiries
                                 THEN WeeklyExpiry(today) ELSE None,
                   monthly   |-> IF "monthly" \in cfg.preferred_expiries
                                 THEN MonthlyExpiry(today) ELSE None,
                   options_data |->
                       IF upd.ok
                       THEN OptionsData(upd.ws.price, strikes, expiries,
                                        today, factors)
                       ELSE EmptyDict]
    /\ UNCHANGED <<now, conf, watchers, pc, iteration, start_time, idx,
                   results, has_signals, last_summary_hour, sent, stop_reason,
                   cycle, summary, hist, session, drain, option_notifier,
                   delivery>>

\* a day passes before the next refresh
DayPasses ==
    /\ pc = "refresh"
    /\ quote # NoQuote
    /\ DayOf(now) < MaxDay
    /\ now' = now + SecondsPerDay
    /\ quote' = NoQuote
    /\ UNCHANGED <<conf, watchers, pc, iteration, start_time, idx,
                   results, has_signals, last_summary_hour, sent, stop_reason,
                   cycle, summary, hist, session, drain, option_notifier,
                   delivery>>

RefreshNext == RefreshCall \/ DayPasses

SpecRefresh == RefreshInit /\ [][RefreshNext]_vars

\* ------------------------------------------------------------------------
\* The summary decision of one run_once call, for the aggregates its for
\* loop can have built
\* ------------------------------------------------------------------------

\* a signal of the first strategy of the watcher, as run_strategies builds it
SampleSignal(cfg, t) ==
    [symbol     |-> cfg.symbol,
     strategy   |-> StrategyName(cfg.files[1]),
     type       |-> "buy_call",
     expiry     |-> FormatDate(WeeklyExpiry(DayOf(t))),
     strike     |-> RoundPrice(10050),
     spot_price |-> 10050,
     confidence |-> 50]

\* a result returned by the try branch of run_one_cycle
NormalResult(cfg, market_state, signals) ==
    [symbol            |-> cfg.symbol,
     data_updated      |-> TRUE,
     market_state      |-> market_state,
     signals           |-> signals,
     current_price     |-> 10050,
     processed_signals |-> signals]

\* the results run_one_cycle can return for a configuration: CfgStock never
\* fails; CfgBadAfter fails inside trading hours and can signal when the
\* clock passes the close during the cycle; CfgNoStrikes fails when a
\* strategy fires; CfgCryptoMidnight always fails
ResultChoices(cfg, t) ==
    IF cfg = CfgStock
    THEN {NormalResult(cfg, "REGULAR_HOURS", <<>>),
          NormalResult(cfg, "REGULAR_HOURS", <<SampleSignal(cfg, t)>>)}
    ELSE IF cfg = CfgBadAfter
    THEN {ErrorResult(cfg, "get_market_state"),
          NormalResult(cfg, "CLOSED", <<>>),
          NormalResult(cfg, "CLOSED", <<SampleSignal(cfg, t)>>)}
    ELSE IF cfg = CfgNoStrikes
    THEN {ErrorResult(cfg, "run_strategies"),
          NormalResult(cfg, "REGULAR_HOURS", <<>>)}
    ELSE {ErrorResult(cfg, "get_market_state")}

SummaryWatcherLists ==
    {<<CfgStock, CfgBadAfter>>, <<CfgBadAfter, CfgNoStrikes>>,
     <<CfgCryptoMidnight, CfgNoStrikes>>}

\* the aggregates of a watcher list: one result per symbol
Aggregates(wl, t) ==
    {[s \in {wl[1].symbol, wl[2].symbol} |->
         IF s = wl[1].symbol THEN r1 ELSE r2] :
        r1 \in ResultChoices(wl[1], t), r2 \in ResultChoices(wl[2], t)}

\* the messages process_signals handed to the notifier for the signals of
\* a result
HandedOver(cfg, result) ==
    [k \in 1..Len(ResultSignals(result)) |->
        SignalMessage(cfg, ResultSignals(result)[k], "ok")]

\* run_once after its for loop: the aggregate is built, the summary
\* decision is next; last_summary_hour is missing, the current hour or the
\* hour before
SummaryInit ==
    /\ now = Thursday1559
    /\ \E wl \in SummaryWatcherLists, n \in BOOLEAN, a \in BOOLEAN :
         /\ conf = Conf(wl, n, a, None)
         /\ \E agg \in Aggregates(wl, Thursday1559) :
              /\ results = agg
              /\ has_signals = \E s \in DOMAIN agg : ResultHasSignals(agg[s])
              /\ sent = IF n THEN HandedOver(wl[1], agg[wl[1].symbol])
                                  \o HandedOver(wl[2], agg[wl[2].symbol])
                        ELSE <<>>
         /\ watchers = [i \in 1..2 |->
                           [NewWatcher(wl[i]) EXCEPT !.price = 10050,
                                                     !.last_update = Thursday1559]]
    /\ last_summary_hour \in {None, HourOf(Thursday1559), HourOf(Thursday1559) - 1}
    /\ pc = "summary"
    /\ iteration = 0
    /\ start_time = Thursday1559
    /\ idx = 3
    /\ stop_reason = "running"
    /\ cycle = NoCycle
    /\ summary = NoSummary
    /\ hist = [NoHistory EXCEPT !.calls = 1]
    /\ session = NoSession
    /\ drain = NoDrain
    /\ delivery = NoDelivery
    /\ quote = NoQuote
    /\ option_notifier = OptionNotifier(EmptyDict)


SpecSummary == SummaryInit /\ [][SummaryStep]_vars

\* ========================================================================
\* Properties of the scheduler (Spec)
\* ========================================================================

Symbols == {conf.watchers[i].symbol : i \in 1..NWatchers}

\* the for loop of the current run_once has ended
LoopEnded == pc = "summary" \/ summary.done

\* C1: in every wall-clock hour with at least one run_once call a summary
\* is emitted, also when no watcher has produced a signal since the process
\* started.  hist.missed records that a later hour began after an hour
\* whose calls emitted no summary.
C1_HeartbeatEveryHour == hist.gap_free => ~hist.missed

\* C2: in a run_once call in which has_signals is true the summary is
\* generated once and handed to the notifier exactly once (no notifier: no
\* hand-over).
C2_SummaryOnceOnSignals ==
    (summary.done /\ has_signals) =>
        /\ summary.emit
        /\ summary.generated = 1
        /\ Len(SummaryMessages(sent)) = (IF conf.notifier THEN 1 ELSE 0)

\* two watchers emitted signals in one call and one summary was handed over
C2_Witness ==
    /\ summary.done
    /\ has_signals
    /\ conf.notifier
    /\ Cardinality({s \in DOMAIN results : ResultHasSignals(results[s])}) = 2
    /\ Len(SummaryMessages(sent)) = 1

\* C3: among the run_once calls without signals at most one emits a
\* summary in one wall-clock hour.
C3_OneHeartbeatPerHour == hist.heartbeats <= 1

\* a call without signals emitted the summary of its hour, and a later call
\* of the same hour without signals has completed its decision
C3_Witness ==
    /\ hist.heartbeats = 1
    /\ summary.done
    /\ ~summary.emit
    /\ ~has_signals
    /\ last_summary_hour = summary.hour

\* C5: whatever watchers fail, run_once cycles every watcher, keeps one
\* result per watcher, and has_signals is true exactly when some watcher
\* returned at least one signal in this call.
C5_EveryWatcherCycled ==
    LoopEnded =>
        /\ DOMAIN results = Symbols
        /\ \A s \in Symbols : results[s].symbol = s
        /\ has_signals <=> \E s \in Symbols : Len(ResultSignals(results[s])) > 0

\* one watcher failed its refresh, another returned a signal, and exactly
\* one summary holding both results was handed over
C5_Witness ==
    /\ summary.done
    /\ has_signals
    /\ DOMAIN results = Symbols
    /\ \E s \in Symbols : ~IsError(results[s]) /\ ~results[s].data_updated
    /\ \E s \in Symbols : Len(ResultSignals(results[s])) = 1
    /\ Len(SummaryMessages(sent)) = 1
    /\ SummaryMessages(sent)[1].covers = Symbols

\* C10: no failure inside run_once ends run_continuous; the loop stops only
\* on an interrupt or when max_iterations is reached.
C10_LoopSurvivesFailures ==
    pc = "stopped" => stop_reason \in {"interrupt", "max_iterations"}

\* the summary decision of the current run_once is taken in this step
Decides == pc = "summary" /\ ~summary.done /\ summary'.done

\* has_signals is true, or a summary was emitted earlier and the hour
\* recorded then differs from the current hour
Triggered ==
    has_signals
    \/ (last_summary_hour # None /\ last_summary_hour # HourOf(now))

\* C24: a run_once call emits a summary exactly when has_signals is true or
\* an earlier summary recorded an hour that differs from the current hour;
\* every emission sets the recorded hour to the current hour, and no other
\* step of run_once changes it.
C24_EmissionPolicy ==
    [][/\ Decides =>
            /\ summary'.emit <=> Triggered
            /\ summary'.emit => last_summary_hour' = HourOf(now)
            /\ ~summary'.emit => last_summary_hour' = last_summary_hour
       /\ ~Decides => last_summary_hour' = last_summary_hour]_vars

\* the symbols of the first n watchers of the configuration
FirstSymbols(n) == {conf.watchers[k].symbol : k \in 1..n}

\* the symbols whose result the rich summary lists
Priced ==
    {s \in DOMAIN results :
        ~IsError(results[s]) /\ results[s].current_price \notin {None, 0}}

\* C25: within a run_once call the watchers are cycled one at a time in
\* configuration order; the summary is generated and handed over only after
\* the cycle of every watcher has completed, is built from the result of
\* every watcher, and follows every signal notification of the call.
C25_SummaryAfterEveryCycle ==
    /\ pc = "cycle" =>
          /\ idx \in 1..NWatchers
          /\ DOMAIN results = FirstSymbols(idx - 1)
          /\ idx > 1 => cycle.idx = idx - 1
          /\ ~summary.done
          /\ SummaryMessages(sent) = <<>>
    /\ LoopEnded =>
          /\ idx = NWatchers + 1
          /\ cycle.idx = NWatchers
          /\ DOMAIN results = Symbols
    /\ (summary.done /\ summary.emit /\ conf.notifier) =>
          /\ sent # <<>>
          /\ sent[Len(sent)].class = "summary"
          /\ \A k \in 1..(Len(sent) - 1) : sent[k].class = "signal"
          /\ sent[Len(sent)].covers =
                 (IF summary.kind = "rich" THEN Priced ELSE Symbols)

\* a summary was handed over after the signal notifications of both
\* watchers of the call, in configuration order
C25_Witness ==
    /\ summary.done
    /\ summary.emit
    /\ conf.notifier
    /\ NWatchers = 2
    /\ Len(sent) = 3
    /\ sent[1].symbol = conf.watchers[1].symbol
    /\ sent[2].symbol = conf.watchers[2].symbol
    /\ sent[3].class = "summary"
    /\ sent[3].covers = Symbols

\* C28: the run_one_cycle call of a watcher changes the state of that
\* watcher only: price, last update, option chain and queue of every other
\* watcher and the last summary hour of the scheduler stay as they are; and
\* no step other than the cycle of a watcher changes the state of that
\* watcher, its queue included.
C28_CycleTouchesOwnWatcherOnly ==
    [][/\ pc = "cycle" =>
            /\ \A j \in 1..NWatchers :
                  j # idx => watchers'[j] = watchers[j]
            /\ last_summary_hour' = last_summary_hour
       /\ \A j \in 1..NWatchers :
             watchers'[j] # watchers[j] =>
                 /\ pc = "cycle" /\ idx = j
                 /\ cycle'.idx = j
                 /\ cycle'.before = watchers[j]
                 /\ cycle'.after = watchers'[j]]_vars

\* the second watcher has just been cycled and returned a signal; the first
\* watcher, cycled before it, has a price and a chain of its own
C28_Witness ==
    /\ pc = "summary"
    /\ cycle.idx = 2
    /\ cycle.after # cycle.before
    /\ watchers[2] = cycle.after
    /\ Len(ResultSignals(cycle.result)) > 0
    /\ watchers[1].price # None
    /\ watchers[1].chain # watchers[2].chain
    /\ watchers[1].chain # EmptyChain

\* ========================================================================
\* Properties of one watcher cycle (SpecWatcher)
\* ========================================================================

\* the configured time under key cannot be parsed
BadTime(cfg, key, dflt) == ParseTime(HoursGet(cfg.hours, key, dflt)) = Raised

\* check_trading_hours raises on this configuration
GateRaises(cfg) ==
    /\ cfg.market # "CRYPTO"
    /\ BadTime(cfg, "market_open", T0930) \/ BadTime(cfg, "market_close", T1600)

\* get_market_state raises after its tradable check passed: it parses the
\* four times before it looks at the market category
StateRaises(c) ==
    /\ ~GateRaises(c.cfg)
    /\ CheckTradingHours(c.cfg, c.tb).val
    /\ \/ BadTime(c.cfg, "market_open", T0930)
       \/ BadTime(c.cfg, "market_close", T1600)
       \/ BadTime(c.cfg, "pre_market_start", T0400)
       \/ BadTime(c.cfg, "after_hours_end", T2000)

\* the strategies were run and one fired on a chain that has expiries and
\* no strikes
StrikelessFire(c) ==
    /\ ~c.gate.exc /\ c.gate.val /\ c.refreshed
    /\ c.after.chain.expiries # {}
    /\ c.after.chain.strikes = {}
    /\ \E i \in DOMAIN c.draws : c.draws[i].fire

\* C4 as stated: an exception in the refresh, the session classification or
\* the strategy run gives a result with an error description and no signals.
C4_AnyFailureFlagged ==
    (cycle # NoCycle
       /\ (~cycle.refreshed \/ GateRaises(cycle.cfg) \/ StateRaises(cycle)
           \/ StrikelessFire(cycle))) =>
        /\ IsError(cycle.result)
        /\ ResultSignals(cycle.result) = <<>>

\* C4 amended: run_one_cycle always returns a result for its symbol.  An
\* exception in the tradable check, the session classification or the
\* strategy run gives a result with an error description, no signals and
\* no notification; an exception in the refresh is caught inside
\* update_market_data and gives a result without error description, with
\* data_updated false and no signals.
C4_FailuresBecomeResults ==
    cycle # NoCycle =>
        /\ cycle.result.symbol = cycle.symbol
        /\ (GateRaises(cycle.cfg) \/ StateRaises(cycle) \/ StrikelessFire(cycle)) =>
              /\ IsError(cycle.result)
              /\ ResultSignals(cycle.result) = <<>>
              /\ cycle.notified = <<>>
        /\ (~cycle.refreshed /\ ~GateRaises(cycle.cfg) /\ ~StateRaises(cycle)) =>
              /\ ~IsError(cycle.result)
              /\ ~cycle.result.data_updated
              /\ cycle.result.signals = <<>>
        /\ IsError(cycle.result) =>
              (GateRaises(cycle.cfg) \/ StateRaises(cycle) \/ StrikelessFire(cycle))

\* a strategy run raised on a refreshed chain and the cycle returned an
\* error result
C4_Witness ==
    /\ cycle # NoCycle
    /\ cycle.refreshed
    /\ StrikelessFire(cycle)
    /\ IsError(cycle.result)

\* C6: when update_market_data returns failure, the spot price, the time of
\* the last refresh and the option chain are what they were before the call.
C6_FailedRefreshKeepsSnapshot ==
    (cycle # NoCycle /\ ~cycle.refreshed) =>
        /\ cycle.after.price = cycle.before.price
        /\ cycle.after.last_update = cycle.before.last_update
        /\ cycle.after.chain = cycle.before.chain

\* ========================================================================
\* Properties of get_market_state (SpecSession)
\* ========================================================================

Classified == session # NoSession

OpenTime(cfg) == ParseTime(HoursGet(cfg.hours, "market_open", T0930))
CloseTime(cfg) == ParseTime(HoursGet(cfg.hours, "market_close", T1600))
PreTime(cfg) == ParseTime(HoursGet(cfg.hours, "pre_market_start", T0400))
AfterTime(cfg) == ParseTime(HoursGet(cfg.hours, "after_hours_end", T2000))

\* the four configured times parse
WellFormed(cfg) == Raised \notin {OpenTime(cfg), CloseTime(cfg), PreTime(cfg), AfterTime(cfg)}

\* the extended window contains the regular one
Nested(cfg) == PreTime(cfg) <= OpenTime(cfg) /\ CloseTime(cfg) <= AfterTime(cfg)

\* t lies in [market_open, market_close]
InHours(cfg, t) == OpenTime(cfg) <= TimeOfDay(t) /\ TimeOfDay(t) <= CloseTime(cfg)

C8_ExtendedSessions ==
    (Classified /\ session.cfg.market # "CRYPTO" /\ WellFormed(session.cfg)
       /\ Nested(session.cfg) /\ session.tc = session.ts
       /\ IsWeekday(session.tc)) =>
        LET t == TimeOfDay(session.tc) IN
        /\ (PreTime(session.cfg) <= t /\ t < OpenTime(session.cfg)) =>
              session.state = "PRE_MARKET"
        /\ (CloseTime(session.cfg) < t /\ t <= AfterTime(session.cfg)) =>
              session.state = "AFTER_HOURS"

\* C9: a crypto instrument is classified OPEN whatever the clock and
\* whatever trading-hours window is configured for it.
C9_CryptoAlwaysOpen ==
    (Classified /\ session.cfg.market = "CRYPTO") => session.state = "OPEN"

\* ========================================================================
\* Properties of run_continuous (Spec)
\* ========================================================================

\* a run_once call of the current iteration has begun
TickBegun == idx # 0

\* C11: when an interrupt arrives during a run_once call, the loop exits
\* only after that call has completed: every watcher was cycled and the
\* summary decision was applied to the full result set.
C11_InterruptAfterTick ==
    (pc = "stopped" /\ stop_reason = "interrupt" /\ TickBegun) =>
        /\ DOMAIN results = Symbols
        /\ summary.done


\* C12: without an interrupt run_continuous returns only when
\* max_iterations is given, and then after exactly max_iterations run_once
\* calls.
C12_ExactlyMaxIterations ==
    (pc = "stopped" /\ stop_reason # "interrupt") =>
        /\ conf.max_iterations # None
        /\ hist.calls = conf.max_iterations


\* C13: in every iteration, for a run_once duration d and interval i, the
\* sleep before the next iteration is max(1, i - d): i - d when that is at
\* least 1 second, else 1 second, so never negative and never below 1.
C13_SleepIsClampedRemainder ==
    [][(pc = "sleep" /\ pc' = "loop") =>
          LET d == now - start_time
              i == conf.update_interval
          IN  /\ now' - now = (IF i - d >= 1 THEN i - d ELSE 1)
              /\ now' - now >= 1]_vars

\* a run_once call that took longer than the interval was followed by a
\* sleep of one second
C13_Witness ==
    /\ pc = "loop"
    /\ iteration > 0
    /\ now - start_time > conf.update_interval + 1
    /\ now - start_time = SlowStep + 1


\* ========================================================================
\* Properties of the signal queue (SpecWatcher)
\* ========================================================================

\* the cycle reached process_signals
Drained == cycle # NoCycle /\ ~IsError(cycle.result)

\* the queue when process_signals was called: what was left in it before
\* the cycle, then the signals run_strategies enqueued
QueueAtDrain == cycle.before.queue \o cycle.result.signals

\* C14: process_signals removes every signal that is in the queue when it
\* is called and returns them in the order they were enqueued; the queue is
\* empty when it returns; each signal is handed to the notifier, in that
\* order, also when the notifier fails on one of them.
C14_DrainIsCompleteFifo ==
    Drained =>
        /\ cycle.after.queue = <<>>
        /\ cycle.result.processed_signals = QueueAtDrain
        /\ conf.notifier =>
              /\ Len(cycle.notified) = Len(QueueAtDrain)
              /\ \A k \in 1..Len(QueueAtDrain) :
                    cycle.notified[k].strategy = QueueAtDrain[k].strategy

\* two signals were queued, the notifier raised on the first one, and both
\* were removed and returned in order
C14_Witness ==
    /\ Drained
    /\ conf.notifier
    /\ Len(QueueAtDrain) = 2
    /\ QueueAtDrain[1] # QueueAtDrain[2]
    /\ cycle.result.processed_signals = QueueAtDrain
    /\ cycle.notified[1].outcome = "raise"
    /\ cycle.notified[2].outcome = "ok"
    /\ cycle.after.queue = <<>>


\* C15: process_signals called on an empty queue returns an empty sequence,
\* sends nothing to the notifier and leaves the watcher as it was, however
\* many times it is called in a row after a drain.
C15_EmptyDrainIsNoOp ==
    (drain # NoDrain /\ drain.before.queue = <<>>) =>
        /\ drain.processed = <<>>
        /\ drain.notified = <<>>
        /\ drain.after = drain.before
        /\ watchers[1] = drain.before

\* after a cycle that drained a signal, process_signals was called twice
\* in a row on the empty queue of a watcher that has a notifier
C15_Witness ==
    /\ drain # NoDrain
    /\ drain.calls = 2
    /\ conf.notifier
    /\ Drained
    /\ Len(cycle.result.processed_signals) > 0
    /\ drain.before.queue = <<>>
    /\ drain.processed = <<>>


\* ========================================================================
\* Properties of the strategy run (SpecWatcher)
\* ========================================================================

\* the clock of the tradable check is a weekday time in
\* [market_open, market_close]
InRegularHours(c) ==
    ~GateRaises(c.cfg) /\ IsWeekday(c.t) /\ InHours(c.cfg, c.t)

\* what check_trading_hours answers: a crypto instrument is always tradable
Tradable(c) == c.cfg.market = "CRYPTO" \/ InRegularHours(c)

\* the cycle emitted nothing: no signal returned, enqueued or notified
NothingEmitted(c) ==
    /\ ResultSignals(c.result) = <<>>
    /\ c.after.queue = c.before.queue
    /\ c.notified = <<>>

\* C16 as stated: outside a weekday time in [market_open, market_close], or
\* after a failed refresh, a cycle emits no signal and enqueues nothing.
C16_GatedByRegularHours ==
    (cycle # NoCycle /\ ~(InRegularHours(cycle) /\ cycle.refreshed)) =>
        NothingEmitted(cycle)

\* C16 amended: a cycle emits signals only when check_trading_hours is true
\* (always for a crypto instrument; for any other a weekday time in
\* [market_open, market_close]) and the refresh of this cycle succeeded; in
\* every other cycle no signal is returned, enqueued or notified.
C16_GatedByTradableCheck ==
    (cycle # NoCycle /\ ~(Tradable(cycle) /\ cycle.refreshed)) =>
        NothingEmitted(cycle)

\* a strategy drew a signal in a cycle whose refresh failed on a chain kept
\* from an earlier cycle, and the cycle emitted nothing
C16_Witness ==
    /\ cycle # NoCycle
    /\ Tradable(cycle)
    /\ ~cycle.refreshed
    /\ cycle.after.chain.expiries # {}
    /\ cycle.after.chain.strikes # {}
    /\ \E i \in DOMAIN cycle.draws : cycle.draws[i].fire
    /\ NothingEmitted(cycle)


\* ========================================================================
\* Properties of the messages of one run_once call (Spec)
\* ========================================================================

\* the signal messages handed to the notifier for symbol s, in order
SignalMessagesOf(s) ==
    SelectSeq(sent, LAMBDA msg : msg.class = "signal" /\ msg.symbol = s)

\* the number of signals the strategies emitted in this call
EmittedTotal == TotalSignals(results, DOMAIN results)

\* C17: with a notifier, every signal a strategy emitted in a run_once call
\* is handed to the notifier as a message of its own exactly once, in the
\* order of emission, and a summary trigger gives exactly one summary
\* message (no trigger: none).
C17_EachSignalSentOnce ==
    (conf.notifier /\ LoopEnded) =>
        /\ \A s \in Symbols :
              LET emitted == ResultSignals(results[s])
                  msgs    == SignalMessagesOf(s)
              IN  /\ Len(msgs) = Len(emitted)
                  /\ \A k \in 1..Len(emitted) :
                        /\ msgs[k].strategy = emitted[k].strategy
                        /\ msgs[k].action = emitted[k].type
                        /\ msgs[k].strike = emitted[k].strike
                        /\ msgs[k].expiry = emitted[k].expiry
        /\ Len(sent) = EmittedTotal + Len(SummaryMessages(sent))
        /\ summary.done =>
              Len(SummaryMessages(sent)) = (IF summary.emit THEN 1 ELSE 0)

\* in one call three signals of two watchers were each handed over once,
\* followed by one summary
C17_Witness ==
    /\ conf.notifier
    /\ summary.done
    /\ EmittedTotal = 3
    /\ \A s \in Symbols : Len(SignalMessagesOf(s)) > 0
    /\ Len(sent) = 4
    /\ sent[4].class = "summary"


\* ========================================================================
\* Properties of a watcher without strategies (Spec)
\* ========================================================================

\* the watchers for which load_strategies found no file
Strategyless == {i \in 1..NWatchers : conf.watchers[i].files = <<>>}

\* C18: a watcher for which no strategy was resolved stays in the watcher
\* set: in every run_once call it is refreshed and has a result, the result
\* reports the refreshed price and the session (a configuration whose times
\* parse gives no error result), and it emits, enqueues and notifies no
\* signal.
C18_StrategylessStaysActive ==
    LoopEnded =>
        \A i \in Strategyless :
            LET cfg == conf.watchers[i]
                r   == results[cfg.symbol]
            IN  /\ cfg.symbol \in DOMAIN results
                /\ watchers[i].last_update # None
                /\ watchers[i].last_update >= start_time
                /\ WellFormed(cfg) => ~IsError(r)
                /\ ~IsError(r) =>
                      /\ r.current_price # None
                      /\ r.current_price = watchers[i].price
                      /\ r.market_state \in SessionValues
                      /\ r.processed_signals = <<>>
                /\ ResultSignals(r) = <<>>
                /\ watchers[i].queue = <<>>
                /\ SignalMessagesOf(cfg.symbol) = <<>>

\* in a second run_once call, within trading hours, the watcher without
\* strategies reported its price and the session REGULAR_HOURS
C18_Witness ==
    /\ summary.done
    /\ hist.calls = 2
    /\ \E i \in Strategyless :
          LET r == results[conf.watchers[i].symbol] IN
          /\ ~IsError(r)
          /\ r.data_updated
          /\ r.current_price = watchers[i].price
          /\ r.market_state = "REGULAR_HOURS"
          /\ r.signals = <<>>


\* ========================================================================
\* Properties of the reported session (SpecWatcher)
\* ========================================================================

\* C29: a cycle whose result holds at least one emitted signal reports the
\* session REGULAR_HOURS or OPEN, never CLOSED, PRE_MARKET or AFTER_HOURS,
\* also when the clock advances between the tradable check of the cycle and
\* the classification of the session.
C29_SignalsOnlyInOpenSession ==
    (cycle # NoCycle /\ ~IsError(cycle.result)
       /\ cycle.result.signals # <<>>) =>
        cycle.result.market_state \in {"REGULAR_HOURS", "OPEN"}

\* ========================================================================
\* Properties of the emitted signals (SpecWatcher)
\* ========================================================================

\* the option chain a successful refresh of cycle c generates from the spot
\* price it has set
ChainOfRefresh(c) ==
    IF ~c.cfg.options_enabled THEN c.before.chain
    ELSE LET expiries == {FormatDate(e) : e \in ExpiryDays(c.cfg, DayOf(c.t))}
         IN  [expiries |-> expiries,
              strikes  |-> IF expiries = {} THEN {}
                           ELSE StrikesOf(c.cfg.preferred_strikes,
                                          c.after.price).val]

\* C30: every signal returned by run_strategies names an expiry and a strike
\* of the option chain generated by the refresh of the same cycle, carries
\* the spot price set by that refresh, has one of the four kinds and a
\* confidence between 0 and 1 (in hundredths); with an empty option chain
\* no signal is returned.
C30_SignalsNameTheChain ==
    (cycle # NoCycle /\ ~IsError(cycle.result)) =>
        /\ \A k \in 1..Len(cycle.result.signals) :
              LET sig == cycle.result.signals[k] IN
              /\ cycle.refreshed
              /\ cycle.after.chain = ChainOfRefresh(cycle)
              /\ sig.expiry \in cycle.after.chain.expiries
              /\ sig.strike \in cycle.after.chain.strikes
              /\ sig.spot_price = cycle.after.price
              /\ sig.spot_price = cycle.result.current_price
              /\ sig.type \in SignalTypes
              /\ 0 <= sig.confidence /\ sig.confidence <= 100
        /\ cycle.after.chain.expiries = {} => cycle.result.signals = <<>>

\* in its second cycle a watcher returned a signal at a strike of the chain
\* of that cycle, which the chain of the first cycle did not have
C30_Witness ==
    /\ cycle # NoCycle
    /\ ~IsError(cycle.result)
    /\ cycle.result.signals # <<>>
    /\ cycle.before.chain # EmptyChain
    /\ cycle.result.signals[1].strike \notin cycle.before.chain.strikes
    /\ cycle.result.signals[1].strike \in cycle.after.chain.strikes

\* a strategy drew a signal on an empty option chain in a cycle within
\* trading hours, and no signal was returned
EmptyChainFire ==
    /\ cycle # NoCycle
    /\ ~IsError(cycle.result)
    /\ cycle.refreshed /\ ~cycle.gate.exc /\ cycle.gate.val
    /\ cycle.after.chain = EmptyChain
    /\ \E i \in DOMAIN cycle.draws : cycle.draws[i].fire
    /\ cycle.result.signals = <<>>

\* ========================================================================
\* Properties of the queue across cycles (SpecWatcher)
\* ========================================================================

\* the strategies whose draw fired in cycle c, in the order they are run
FiredStrategies(c) ==
    LET fired == SelectSeq([i \in 1..Len(c.after.strategies) |-> i],
                           LAMBDA i : c.draws[i].fire)
    IN  [k \in 1..Len(fired) |-> StrategyName(c.after.strategies[fired[k]])]

\* C26: after every run_one_cycle call, with a normal or an error result,
\* the queue of the watcher is empty, so nothing is left for a later cycle;
\* in a normal result the processed signals are the signals returned by the
\* strategies of this cycle, in the same order: one per strategy that fired.
C26_QueueEmptyAfterCycle ==
    cycle # NoCycle =>
        /\ cycle.before.queue = <<>>
        /\ cycle.after.queue = <<>>
        /\ watchers[1].queue = <<>>
        /\ ~IsError(cycle.result) =>
              /\ cycle.result.processed_signals = cycle.result.signals
              /\ cycle.result.signals # <<>> =>
                    /\ Len(cycle.result.signals) = Len(FiredStrategies(cycle))
                    /\ \A k \in 1..Len(cycle.result.signals) :
                          /\ cycle.result.signals[k].strategy
                                 = FiredStrategies(cycle)[k]
                          /\ cycle.result.signals[k].spot_price
                                 = cycle.after.price

\* the second cycle of a watcher returned and processed two signals of its
\* own and left the queue empty
C26_Witness ==
    /\ cycle # NoCycle
    /\ hist.calls = 2
    /\ cycle.before.price # None
    /\ cycle.before.last_update # None
    /\ ~IsError(cycle.result)
    /\ Len(cycle.result.signals) = 2
    /\ cycle.result.processed_signals = cycle.result.signals
    /\ cycle.after.queue = <<>>

\* ========================================================================
\* Properties of a failing strategy (SpecWatcher)
\* ========================================================================

\* C19: when the evaluation of one strategy fails, the cycle goes on
\* without the signals of that strategy: its result is not an error result,
\* it reports the refresh, the price and the session, and what the cycle
\* returned was enqueued, drained and notified.
C19_StrategyFailureIsLocal ==
    (cycle # NoCycle /\ StrikelessFire(cycle)) =>
        /\ ~IsError(cycle.result)
        /\ cycle.result.data_updated
        /\ cycle.result.current_price = cycle.after.price
        /\ cycle.result.processed_signals = cycle.result.signals


\* ========================================================================
\* Properties of send_message (SpecNotifier)
\* ========================================================================

Sent == delivery # NoDelivery

\* the number of times key occurs in sequence s
Times(s, key) == Cardinality({i \in 1..Len(s) : s[i] = key})

\* the requests posted to channel ch by the latest send_message
PostsTo(ch) ==
    Cardinality({i \in 1..Len(delivery.posts) : delivery.posts[i].channel = ch})

\* channel ch, taken alone, accepts the message of the latest send_message:
\* its section is complete, the image can be attached, and the service
\* answers with success
Accepts(ch) ==
    LET n == delivery.before
        reply == delivery.replies[ch]
        attachable == ~HasImage(delivery.image_path)
                      \/ delivery.image_path \in ReadableImages
    IN  CASE ch = "telegram" ->
                 /\ ~Missing(n.telegram_config, "token")
                 /\ ~Missing(n.telegram_config, "chat_id")
                 /\ attachable
                 /\ ~reply.raises /\ reply.status_code = 200
          [] ch = "discord" ->
                 /\ ~Missing(n.discord_config, "webhook_url")
                 /\ attachable
                 /\ ~reply.raises /\ reply.status_code \in {200, 204}
          [] ch = "feishu" ->
                 /\ ~Missing(n.feishu_config, "webhook_url")
                 /\ ~reply.raises /\ reply.status_code = 200
                 /\ reply.is_json /\ reply.code = 0

\* C20: send_message calls the method of every enabled channel exactly once,
\* which posts at most one request, and records what that channel gave under
\* the channel's own key, whatever the other channels gave; a disabled
\* channel is not called and has no key; a channel that fails gives a result
\* with success False, and nothing is raised to the caller.
C20_EveryChannelOnceNoRaise ==
    Sent =>
        /\ ~delivery.exc
        /\ DOMAIN delivery.results =
               {ch \in ChannelNames : ChannelEnabled(delivery.before, ch)}
        /\ \A ch \in ChannelNames :
              IF ChannelEnabled(delivery.before, ch)
              THEN /\ Times(delivery.called, ch) = 1
                   /\ PostsTo(ch) <= 1
                   /\ delivery.results[ch].success = Accepts(ch)
              ELSE /\ Times(delivery.called, ch) = 0
                   /\ PostsTo(ch) = 0
        /\ option_notifier.notification_count
               = delivery.before.notification_count + 1

\* all three channels are enabled; telegram's post raises, discord accepts
\* the message, feishu answers with an error code
C20_Witness ==
    /\ Sent
    /\ \A ch \in ChannelNames : ChannelEnabled(delivery.before, ch)
    /\ delivery.replies["telegram"].raises
    /\ PostsTo("telegram") = 1
    /\ ~delivery.results["telegram"].success
    /\ delivery.results["discord"].success
    /\ delivery.replies["feishu"].code # 0
    /\ PostsTo("feishu") = 1
    /\ ~delivery.results["feishu"].success
    /\ delivery.called = <<"telegram", "discord", "feishu">>


\* ========================================================================
\* Properties of a refresh (SpecRefresh)
\* ========================================================================

Quoted == quote # NoQuote

\* the refresh returned True
Refreshed == Quoted /\ quote.ok

\* C21: in every entry of the option chain generated by a successful refresh
\* the call bid is at most the call price, which is at most the call ask,
\* and likewise for the put.
C21_BidPriceAskOrdered ==
    Refreshed =>
        \A key \in DOMAIN quote.options_data :
            LET e == quote.options_data[key]
            IN  /\ e.call_bid <= e.call /\ e.call <= e.call_ask
                /\ e.put_bid <= e.put /\ e.put <= e.put_ask

\* a refresh generated an entry for a strike above the spot price: the call
\* has only time value, the put has intrinsic value, and the bids and asks
\* differ from the prices
C21_Witness ==
    /\ Refreshed
    /\ \E key \in DOMAIN quote.options_data :
          LET e == quote.options_data[key]
          IN  /\ key[2] * 100 > quote.ws.price
              /\ 0 < e.call_bid /\ e.call_bid < e.call /\ e.call < e.call_ask
              /\ e.call < e.put /\ e.put_bid < e.put /\ e.put < e.put_ask


\* the day of month of the third Friday of month m of year y
ThirdFriday(y, m) ==
    CHOOSE d \in 15..21 : WeekdayOfDay(MakeDate(y, m, d)) = 4

\* the third Friday of today's month, or of the following month when that
\* date lies before today
ThirdFridayFrom(today) ==
    LET dt == DateOfDay(today)
        this_month == MakeDate(dt.y, dt.m, ThirdFriday(dt.y, dt.m))
        next_month == IF dt.m < 12 THEN dt.m + 1 ELSE 1
        next_year  == IF dt.m < 12 THEN dt.y ELSE dt.y + 1
    IN  IF this_month < today
        THEN MakeDate(next_year, next_month, ThirdFriday(next_year, next_month))
        ELSE this_month

MonthlyAsked == Quoted /\ "monthly" \in quote.cfg.preferred_expiries

\* C22: the "monthly" expiry computed by a refresh is the third Friday of
\* today's month, or the third Friday of the following month (of the next
\* year after December) when that date has already passed.
C22_MonthlyIsThirdFriday ==
    MonthlyAsked => quote.monthly = ThirdFridayFrom(quote.today)


WeeklyAsked == Quoted /\ "weekly" \in quote.cfg.preferred_expiries

\* C23: the "weekly" expiry computed by a refresh is a Friday between 7 and
\* 13 days after today, so it is neither today nor the Friday of the
\* current week.
C23_WeeklyIsNextWeeksFriday ==
    WeeklyAsked =>
        /\ WeekdayOfDay(quote.weekly) = 4
        /\ quote.weekly - quote.today >= 7
        /\ quote.weekly - quote.today <= 13
        /\ quote.weekly - WeekdayOfDay(quote.weekly)
               = quote.today - WeekdayOfDay(quote.today) + 7
           \/ WeekdayOfDay(quote.today) > 4

\* the weekly expiry computed on a Friday is the Friday a week later, and
\* the one computed on a Saturday is 13 days ahead
C23_Witness ==
    /\ WeeklyAsked
    /\ \/ WeekdayOfDay(quote.today) = 4 /\ quote.weekly = quote.today + 7
       \/ WeekdayOfDay(quote.today) = 5 /\ quote.weekly = quote.today + 13



\* ========================================================================
\* Properties of the summary texts (SpecSummary)
\* ========================================================================

\* the symbols with an error result in the aggregate
Failed == {s \in DOMAIN results : IsError(results[s])}

\* C27: whenever the summary decision emits, a summary text is produced and,
\* with a notifier, handed to it; the text is the simple summary when there
\* is no router, when the router raises, or when no result has a price, and
\* the rich text otherwise; the simple summary is produced for every
\* aggregate, lists every watcher and marks the ones with an error result.
C27_SummaryAlwaysProduced ==
    (summary.done /\ summary.emit) =>
        /\ summary.generated = 1
        /\ summary.kind \in {"simple", "rich"}
        /\ summary.kind = "rich" <=>
              (conf.ai_router /\ summary.ask = "ok" /\ Priced # {})
        /\ conf.notifier =>
              /\ Len(SummaryMessages(sent)) = 1
              /\ LET text == sent[Len(sent)] IN
                 /\ text.class = "summary"
                 /\ text.kind = summary.kind
                 /\ text.kind = "simple" =>
                       /\ text.covers = Symbols
                       /\ text.errors = Failed
                       /\ text.total = TotalSignals(results, Symbols)
        /\ ~conf.notifier => SummaryMessages(sent) = <<>>

\* the router raised on an aggregate with a signal and an error result, and
\* the simple summary was handed to the notifier
C27_Witness ==
    /\ summary.done
    /\ summary.emit
    /\ conf.ai_router
    /\ summary.ask = "raise"
    /\ conf.notifier
    /\ has_signals
    /\ Failed # {}
    /\ Priced # {}
    /\ sent[Len(sent)].kind = "simple"
    /\ sent[Len(sent)].errors = Failed

\* every result of the aggregate is an error result, the hour has changed
\* since the last summary, and the simple summary was handed over
AllFailedSummarized ==
    /\ summary.done
    /\ summary.emit
    /\ conf.notifier
    /\ conf.ai_router
    /\ Failed = Symbols
    /\ sent[Len(sent)].kind = "simple"

====
